---- MODULE Spec2Model ----
(***************************************************************************)
(* A model of the shell emulator of src/Emulator_5/Emulator_5.py: the     *)
(* in-memory VFS (node tree, CSV loader, path resolution), the command    *)
(* dispatcher with its built-in commands, and the startup-script runner   *)
(* driven by the Tk event loop.                                           *)
(*                                                                         *)
(* Text is modelled as a sequence of one-character strings, bytes as a    *)
(* sequence of integers 0..255, a directory's children as a function from *)
(* names to nodes.  Messages printed to the text widget are modelled as   *)
(* tagged tuples carrying the values the message is formatted from.       *)
(***************************************************************************)
EXTENDS Integers, Sequences, FiniteSets, TLC

VARIABLES
  pc,             \* "construct": inside __init__ before _load_vfs_if_any; "mainloop"; "destroyed"
  vfs_path,       \* self.vfs_path: None or the description file named by --vfs
  startup_script, \* self.startup_script: None or the script file named by --startup
  root,           \* self.vfs.root
  raw_bytes,      \* self.vfs._raw_bytes
  name,           \* self.vfs._name
  cwd_parts,      \* self.cwd_parts
  script_lines,   \* self._script_lines: sequence of <<lineno, line>>
  script_index,   \* self._script_index
  pending,        \* the callbacks registered with root.after and not yet run
  clock,          \* the last value datetime.now() returned
  submits,        \* number of interactive submissions so far
  out,            \* the lines the last handler printed with println
  last,           \* the last handler run and what its call of exec returned
  hist,           \* history: how the load ended, what the script run has done so far
  probe           \* the last application of a pure function to drawn inputs, and its result

vars == <<pc, vfs_path, startup_script, root, raw_bytes, name, cwd_parts,
          script_lines, script_index, pending, clock, submits, out, last, hist, probe>>

None == "None"

----------------------------------------------------------------------------
(* Bounds of the model *)

\* rows of a description (model SpecLoad)
MaxRows == 2

\* lines of a startup script (models SpecScript and SpecRun)
MaxScriptLen == 3

\* interactive submissions
MaxSubmits == 2

\* distinct later readings of the wall clock
MaxClock == 2

\* names of a working directory handed to resolve (model SpecResolve)
MaxCwdLen == 2

\* characters of a path handed to resolve (model SpecResolve)
MaxPathLen == 4

\* leading ".." segments put before a path resolved at the root
MaxUp == 3

----------------------------------------------------------------------------
(* Text helpers: Python's str methods on sequences of characters *)

Whitespace == {" ", "\t", "\n", "\r"}

Min(a, b) == IF a < b THEN a ELSE b

RECURSIVE SplitAcc(_, _, _, _)
SplitAcc(s, sep, i, cur) ==
  IF i > Len(s) THEN <<cur>>
  ELSE IF s[i] = sep THEN <<cur>> \o SplitAcc(s, sep, i + 1, <<>>)
  ELSE SplitAcc(s, sep, i + 1, Append(cur, s[i]))

\* s.split(sep) for a one-character sep: n separators give n+1 pieces
Split(s, sep) == SplitAcc(s, sep, 1, <<>>)

RECURSIVE JoinWith(_, _)
\* sep.join(pieces)
JoinWith(pieces, sep) ==
  IF Len(pieces) = 0 THEN <<>>
  ELSE IF Len(pieces) = 1 THEN pieces[1]
  ELSE pieces[1] \o sep \o JoinWith(Tail(pieces), sep)

\* c.join(pieces) for a one-character c
Join(pieces, c) == JoinWith(pieces, <<c>>)

RECURSIVE LStrip(_)
LStrip(s) == IF Len(s) > 0 /\ s[1] \in Whitespace THEN LStrip(Tail(s)) ELSE s

RECURSIVE RStrip(_)
RStrip(s) ==
  IF Len(s) > 0 /\ s[Len(s)] \in Whitespace THEN RStrip(SubSeq(s, 1, Len(s) - 1)) ELSE s

\* s.strip()
Strip(s) == RStrip(LStrip(s))

\* the printable ASCII characters, code points 32..126 in order (96 is named,
\* not written: no text of the model holds it)
Printable ==
  <<" ", "!", "\"", "#", "$", "%", "&", "'", "(", ")", "*", "+", ",", "-", ".", "/",
     "0", "1", "2", "3", "4", "5", "6", "7", "8", "9", ":", ";", "<", "=", ">", "?",
     "@", "A", "B", "C", "D", "E", "F", "G", "H", "I", "J", "K", "L", "M", "N", "O",
     "P", "Q", "R", "S", "T", "U", "V", "W", "X", "Y", "Z", "[", "\\", "]", "^", "_",
     "backquote", "a", "b", "c", "d", "e", "f", "g", "h", "i", "j", "k", "l", "m", "n", "o",
     "p", "q", "r", "s", "t", "u", "v", "w", "x", "y", "z", "{", "|", "}", "~">>

\* c.lower() for an ASCII character: "A".."Z" are 32 code points below "a".."z"
LowerChar(c) ==
  IF \E i \in 34..59 : Printable[i] = c
    THEN Printable[(CHOOSE i \in 34..59 : Printable[i] = c) + 32]
  ELSE c

\* s.lower()
Lower(s) == [i \in 1..Len(s) |-> LowerChar(s[i])]

\* s.startswith(c) for a one-character c
StartsWith(s, c) == Len(s) > 0 /\ s[1] = c

RECURSIVE DropEmptyDot(_)
\* [seg for seg in segs if seg not in ("", ".")]
DropEmptyDot(segs) ==
  IF Len(segs) = 0 THEN <<>>
  ELSE IF segs[1] = <<>> \/ segs[1] = <<".">> THEN DropEmptyDot(Tail(segs))
  ELSE <<segs[1]>> \o DropEmptyDot(Tail(segs))

\* s[:-1]
ButLast(s) == IF Len(s) = 0 THEN <<>> ELSE SubSeq(s, 1, Len(s) - 1)

Dot == <<".">>
DotDot == <<".", ".">>

----------------------------------------------------------------------------
(* Bytes: str.encode and base64.b64decode *)

\* ord(c) for an ASCII character
Ord(c) ==
  IF c = "\n" THEN 10 ELSE IF c = "\t" THEN 9 ELSE IF c = "\r" THEN 13
  ELSE 31 + (CHOOSE i \in 1..Len(Printable) : Printable[i] = c)

\* text.encode("utf-8") for ASCII text
EncodeUtf8(text) == [i \in 1..Len(text) |-> Ord(text[i])]

B64Alphabet ==
  <<"A", "B", "C", "D", "E", "F", "G", "H", "I", "J", "K", "L", "M", "N", "O", "P",
     "Q", "R", "S", "T", "U", "V", "W", "X", "Y", "Z", "a", "b", "c", "d", "e", "f",
     "g", "h", "i", "j", "k", "l", "m", "n", "o", "p", "q", "r", "s", "t", "u", "v",
     "w", "x", "y", "z", "0", "1", "2", "3", "4", "5", "6", "7", "8", "9", "+", "/">>

IsB64Char(c) == \E i \in 1..Len(B64Alphabet) : B64Alphabet[i] = c

B64Value(c) == (CHOOSE i \in 1..Len(B64Alphabet) : B64Alphabet[i] = c) - 1

RECURSIVE B64Scan(_, _, _, _, _, _)
\* binascii.a2b_base64 in its lenient mode: characters outside the alphabet are
\* skipped, a complete padding ends the input, leftover sextets are an error
B64Scan(s, i, quad_pos, leftchar, pads, acc) ==
  IF i > Len(s) THEN [err |-> quad_pos # 0, bytes |-> acc]
  ELSE IF s[i] = "=" THEN
    IF quad_pos >= 2 /\ quad_pos + pads + 1 >= 4 THEN [err |-> FALSE, bytes |-> acc]
    ELSE B64Scan(s, i + 1, quad_pos, leftchar, IF quad_pos >= 2 THEN pads + 1 ELSE pads, acc)
  ELSE IF ~IsB64Char(s[i]) THEN B64Scan(s, i + 1, quad_pos, leftchar, pads, acc)
  ELSE LET v == B64Value(s[i]) IN
    CASE quad_pos = 0 -> B64Scan(s, i + 1, 1, v, 0, acc)
      [] quad_pos = 1 ->
           B64Scan(s, i + 1, 2, v % 16, 0, Append(acc, leftchar * 4 + v \div 16))
      [] quad_pos = 2 ->
           B64Scan(s, i + 1, 3, v % 4, 0, Append(acc, leftchar * 16 + v \div 4))
      [] OTHER ->
           B64Scan(s, i + 1, 0, 0, 0, Append(acc, leftchar * 64 + v))

\* base64.b64decode(content.encode("ascii"))
B64Decode(content) == B64Scan(content, 1, 0, 0, 0, <<>>)

----------------------------------------------------------------------------
(* VFSNode *)

DirMode == 493    \* 0o755
FileMode == 420   \* 0o644

NoChildren == [k \in {} |-> None]

DirNode(mode, mtime) ==
  [kind |-> "dir", children |-> NoChildren, content |-> <<>>, mode |-> mode, mtime |-> mtime]

FileNode(content, mode, mtime) ==
  [kind |-> "file", children |-> NoChildren, content |-> content, mode |-> mode, mtime |-> mtime]

is_dir(node) == node.kind = "dir"

is_file(node) == node.kind = "file"

\* node.children.get(nm) is not None
HasChild(node, nm) == nm \in DOMAIN node.children

\* node.children[nm] = child
PutChild(node, nm, child) ==
  [node EXCEPT !.children =
     [k \in (DOMAIN node.children) \cup {nm} |-> IF k = nm THEN child ELSE node.children[k]]]

RECURSIVE NodeAt(_, _)
\* the node reached from `node` by following parts through children (the
\* object a Python reference obtained by such a walk designates)
NodeAt(node, parts) ==
  IF Len(parts) = 0 THEN node ELSE NodeAt(node.children[parts[1]], Tail(parts))

RECURSIVE ReplaceAt(_, _, _)
\* the tree after an in-place mutation of the node at parts into new
ReplaceAt(node, parts, new) ==
  IF Len(parts) = 0 THEN new
  ELSE PutChild(node, parts[1], ReplaceAt(node.children[parts[1]], Tail(parts), new))

----------------------------------------------------------------------------
(* VFS: the loader *)

Nil == [nil |-> TRUE]

\* the result of a lookup that found nothing (Python's None where a node is expected)
NoNode == [kind |-> "none"]

IsNone(node) == node.kind = "none"

T_dir == <<"d", "i", "r">>
T_file == <<"f", "i", "l", "e">>
E_utf8 == <<"u", "t", "f", "8">>
E_text == <<"t", "e", "x", "t">>
E_base64 == <<"b", "a", "s", "e", "6", "4">>
E_b64 == <<"b", "6", "4">>
E_binary == <<"b", "i", "n", "a", "r", "y">>

\* a message that names the first segment only
ConflictPath_Head(parts) == parts[1]

\* the path the conflict message of _ensure_dir names
ConflictPath(parts) == Join(parts, "/")

RECURSIVE EnsureDirFrom(_, _, _)
\* the loop of _ensure_dir started at cur: [err, node], node being cur after
\* the directories the loop created
EnsureDirFrom(cur, parts, now) ==
  IF Len(parts) = 0 THEN [err |-> FALSE, node |-> cur]
  ELSE LET nm == parts[1] IN
    IF ~HasChild(cur, nm) THEN
      LET sub == EnsureDirFrom(DirNode(DirMode, now), Tail(parts), now)
      IN  [err |-> sub.err, node |-> PutChild(cur, nm, sub.node)]
    ELSE IF cur.children[nm].kind # "dir" THEN [err |-> TRUE, node |-> cur]
    ELSE
      LET sub == EnsureDirFrom(cur.children[nm], Tail(parts), now)
      IN  [err |-> sub.err, node |-> PutChild(cur, nm, sub.node)]

\* VFS._ensure_dir on the tree rt: the exception raised (Nil: none) and the tree after
ensure_dir(rt, parts, now) ==
  LET r == EnsureDirFrom(rt, parts, now)
  IN  [exc |-> IF r.err THEN [what |-> "conflict", path |-> ConflictPath(parts)] ELSE Nil,
       root |-> r.node]

\* the dir branch of the row loop
LoadDirRow(rt, parts, now) ==
  LET e == ensure_dir(rt, parts, now) IN
  IF e.exc # Nil THEN e
  ELSE LET node == NodeAt(e.root, parts)
       IN  [exc |-> Nil,
            root |-> ReplaceAt(e.root, parts,
                               [node EXCEPT !.mode = IF node.mode = 0 THEN DirMode ELSE node.mode])]

\* parent.children[filename] = VFSNode(kind="file", ...)
StoreFile(rt, parts, data_bytes, now) ==
  LET parent == NodeAt(rt, ButLast(parts))
  IN  ReplaceAt(rt, ButLast(parts),
                PutChild(parent, parts[Len(parts)], FileNode(data_bytes, FileMode, now)))

\* the file branch of the row loop
LoadFileRow(rt, parts, enc, content, i, now) ==
  LET e == ensure_dir(rt, ButLast(parts), now) IN
  IF e.exc # Nil THEN e
  ELSE IF Len(parts) = 0 THEN [exc |-> [what |-> "bad file path", row |-> i], root |-> e.root]
  ELSE IF enc \in {<<>>, E_utf8, E_text}
    THEN [exc |-> Nil, root |-> StoreFile(e.root, parts, EncodeUtf8(content), now)]
  ELSE IF enc \in {E_base64, E_b64, E_binary}
    THEN LET d == B64Decode(content) IN
         IF d.err THEN [exc |-> [what |-> "base64"], root |-> e.root]
         ELSE [exc |-> Nil, root |-> StoreFile(e.root, parts, d.bytes, now)]
  ELSE [exc |-> [what |-> "unknown encoding", row |-> i], root |-> e.root]

\* one iteration of the row loop of load_from_csv (i: the row's number)
LoadRow(rt, row, i, now) ==
  LET p == Strip(row.path)
      t == Lower(Strip(row.type))
      enc == Lower(Strip(row.encoding))
      parts == DropEmptyDot(Split(p, "/"))
  IN  IF p = <<>> \/ t = <<>> THEN [exc |-> [what |-> "empty path/type", row |-> i], root |-> rt]
      ELSE IF t = T_dir THEN LoadDirRow(rt, parts, now)
      ELSE IF t = T_file THEN LoadFileRow(rt, parts, enc, row.content, i, now)
      ELSE [exc |-> [what |-> "unknown type", row |-> i], root |-> rt]

RECURSIVE LoadRows(_, _, _, _)
\* the row loop from row k on: it ends at the first exception, the tree
\* keeping what the rows before it did to it
LoadRows(rt, rows, k, now) ==
  IF k > Len(rows) THEN [exc |-> Nil, root |-> rt]
  ELSE LET r == LoadRow(rt, rows[k], k + 1, now) IN
       IF r.exc # Nil THEN r ELSE LoadRows(r.root, rows, k + 1, now)

\* what load_from_csv stores in _raw_bytes and _name before it parses
StoredSource(file, old_bytes, old_name) ==
  [raw_bytes |-> file.data, name |-> file.fname]

\* VFS.load_from_csv(path) on a VFS whose fields are rt, old_bytes, old_name
load_from_csv(file, rt, old_bytes, old_name, now) ==
  IF ~file.exists
    THEN [exc |-> [what |-> "FileNotFoundError"], root |-> rt,
          raw_bytes |-> old_bytes, name |-> old_name]
  ELSE LET st == StoredSource(file, old_bytes, old_name) IN
    IF ~file.data.decodable
      THEN [exc |-> [what |-> "UnicodeDecodeError"], root |-> rt,
            raw_bytes |-> st.raw_bytes, name |-> st.name]
    ELSE LET r == LoadRows(rt, file.data.rows, 1, now)
         IN  [exc |-> r.exc, root |-> r.root, raw_bytes |-> st.raw_bytes, name |-> st.name]

----------------------------------------------------------------------------
(* VFS: path resolution *)

RECURSIVE Normalize_KeepsDotDotAtRoot(_, _)
\* a first loop that keeps a ".." it cannot pop
Normalize_KeepsDotDotAtRoot(parts, segs) ==
  IF Len(segs) = 0 THEN parts
  ELSE IF segs[1] = <<>> \/ segs[1] = Dot THEN Normalize_KeepsDotDotAtRoot(parts, Tail(segs))
  ELSE IF segs[1] = DotDot /\ Len(parts) > 0 /\ parts[Len(parts)] # DotDot
    THEN Normalize_KeepsDotDotAtRoot(ButLast(parts), Tail(segs))
  ELSE Normalize_KeepsDotDotAtRoot(Append(parts, segs[1]), Tail(segs))

RECURSIVE Normalize(_, _)
\* the first loop of resolve: parts after the segments segs
Normalize(parts, segs) ==
  IF Len(segs) = 0 THEN parts
  ELSE IF segs[1] = <<>> \/ segs[1] = Dot THEN Normalize(parts, Tail(segs))
  ELSE IF segs[1] = DotDot
    THEN Normalize(IF Len(parts) > 0 THEN ButLast(parts) ELSE parts, Tail(segs))
  ELSE Normalize(Append(parts, segs[1]), Tail(segs))

RECURSIVE Walk_DeepestFound(_, _)
\* a second loop that returns the last node it found when a child is missing
Walk_DeepestFound(node, parts) ==
  IF Len(parts) = 0 THEN node
  ELSE IF ~is_dir(node) THEN NoNode
  ELSE IF ~HasChild(node, parts[1]) THEN node
  ELSE Walk_DeepestFound(node.children[parts[1]], Tail(parts))

RECURSIVE Walk(_, _)
\* the second loop of resolve and of resolve_parent: the node parts designates
Walk(node, parts) ==
  IF Len(parts) = 0 THEN node
  ELSE IF ~is_dir(node) THEN NoNode
  ELSE IF ~HasChild(node, parts[1]) THEN NoNode
  ELSE Walk(node.children[parts[1]], Tail(parts))

\* a resolve that returns the segments it could walk, not all it computed
resolve_WalkedPrefix(rt, cwd, path) ==
  LET parts == Normalize(IF StartsWith(path, "/") THEN <<>> ELSE cwd, Split(path, "/"))
      found(k) == ~IsNone(Walk(rt, SubSeq(parts, 1, k)))
      n == CHOOSE k \in 0..Len(parts) : found(k) /\ (k = Len(parts) \/ ~found(k + 1))
  IN  [parts |-> SubSeq(parts, 1, n), node |-> Walk(rt, parts)]

\* VFS.resolve(cwd, path) on the tree rt
resolve(rt, cwd, path) ==
  LET parts == Normalize(IF StartsWith(path, "/") THEN <<>> ELSE cwd, Split(path, "/"))
  IN  [parts |-> parts, node |-> Walk(rt, parts)]

RECURSIVE ParentParts_KeepsDotDot(_, _)
\* a loop that appends ".." like any other segment
ParentParts_KeepsDotDot(parts, segs) ==
  IF Len(segs) = 0 THEN parts
  ELSE ParentParts_KeepsDotDot(Append(parts, segs[1]), Tail(segs))

RECURSIVE ParentParts(_, _)
\* the first loop of resolve_parent
ParentParts(parts, segs) ==
  IF Len(segs) = 0 THEN parts
  ELSE IF segs[1] = DotDot
    THEN ParentParts(IF Len(parts) > 0 THEN ButLast(parts) ELSE parts, Tail(segs))
  ELSE ParentParts(Append(parts, segs[1]), Tail(segs))

\* VFS.resolve_parent(cwd, path) on the tree rt (has_base FALSE: basename is None)
resolve_parent(rt, cwd, path) ==
  LET start == IF StartsWith(path, "/") THEN <<>> ELSE cwd
      segs == DropEmptyDot(Split(path, "/"))
  IN  IF Len(segs) = 0 THEN [parts |-> start, node |-> NoNode, basename |-> <<>>, has_base |-> FALSE]
      ELSE LET parts == ParentParts(start, ButLast(segs))
           IN  [parts |-> parts, node |-> Walk(rt, parts),
                basename |-> segs[Len(segs)], has_base |-> TRUE]

----------------------------------------------------------------------------
(* The command line: shlex.split(line, posix=True) *)

RECURSIVE ShlexScan(_, _, _, _, _, _, _)
\* shlex's read_token loop over the whole line.  state: "sp" between tokens,
\* "a" inside a word, "'" or "\"" inside quotes, "esc" after a backslash
ShlexScan(s, i, state, escapedstate, token, quoted, tokens) ==
  IF i > Len(s) THEN
    IF state \in {"'", "\"", "esc"} THEN [err |-> TRUE, tokens |-> tokens]
    ELSE IF state = "a" /\ (Len(token) > 0 \/ quoted)
      THEN [err |-> FALSE, tokens |-> Append(tokens, token)]
    ELSE [err |-> FALSE, tokens |-> tokens]
  ELSE LET c == s[i] IN
    CASE state = "sp" ->
           IF c \in Whitespace THEN ShlexScan(s, i + 1, "sp", escapedstate, <<>>, FALSE, tokens)
           ELSE IF c = "\\" THEN ShlexScan(s, i + 1, "esc", "a", <<>>, FALSE, tokens)
           ELSE IF c \in {"'", "\""} THEN ShlexScan(s, i + 1, c, escapedstate, <<>>, TRUE, tokens)
           ELSE ShlexScan(s, i + 1, "a", escapedstate, <<c>>, FALSE, tokens)
      [] state \in {"'", "\""} ->
           IF c = state THEN ShlexScan(s, i + 1, "a", escapedstate, token, TRUE, tokens)
           ELSE IF c = "\\" /\ state = "\"" THEN ShlexScan(s, i + 1, "esc", state, token, TRUE, tokens)
           ELSE ShlexScan(s, i + 1, state, escapedstate, Append(token, c), TRUE, tokens)
      [] state = "esc" ->
           IF escapedstate \in {"'", "\""} /\ c # "\\" /\ c # escapedstate
             THEN ShlexScan(s, i + 1, escapedstate, escapedstate, token \o <<"\\", c>>, quoted, tokens)
           ELSE ShlexScan(s, i + 1, escapedstate, escapedstate, Append(token, c), quoted, tokens)
      [] OTHER ->
           IF c \in Whitespace
             THEN IF Len(token) > 0 \/ quoted
                    THEN ShlexScan(s, i + 1, "sp", escapedstate, <<>>, FALSE, Append(tokens, token))
                  ELSE ShlexScan(s, i + 1, "sp", escapedstate, <<>>, FALSE, tokens)
           ELSE IF c \in {"'", "\""} THEN ShlexScan(s, i + 1, c, escapedstate, token, TRUE, tokens)
           ELSE IF c = "\\" THEN ShlexScan(s, i + 1, "esc", "a", token, quoted, tokens)
           ELSE ShlexScan(s, i + 1, "a", escapedstate, Append(token, c), quoted, tokens)

\* shlex.split(line, posix=True): err is the ValueError of unbalanced quoting
shlex_split(line) == ShlexScan(line, 1, "sp", "a", <<>>, FALSE, <<>>)

\* parse_command_line(line): (cmd, args, perr)
parse_command_line(line) ==
  LET r == shlex_split(line) IN
  IF r.err THEN [cmd |-> <<>>, args |-> <<>>, perr |-> TRUE]
  ELSE IF Len(r.tokens) = 0 THEN [cmd |-> <<>>, args |-> <<>>, perr |-> FALSE]
  ELSE [cmd |-> r.tokens[1], args |-> Tail(r.tokens), perr |-> FALSE]

----------------------------------------------------------------------------
(* Integers as bit masks, octal text, ordering of names *)

RECURSIVE BitAnd(_, _)
\* a & b
BitAnd(a, b) ==
  IF a = 0 \/ b = 0 THEN 0 ELSE (a % 2) * (b % 2) + 2 * BitAnd(a \div 2, b \div 2)

RECURSIVE BitOr(_, _)
\* a | b
BitOr(a, b) ==
  IF a = 0 THEN b ELSE IF b = 0 THEN a
  ELSE (IF a % 2 = 1 \/ b % 2 = 1 THEN 1 ELSE 0) + 2 * BitOr(a \div 2, b \div 2)

RECURSIVE BitAndNot(_, _)
\* a & ~b
BitAndNot(a, b) ==
  IF a = 0 THEN 0
  ELSE (IF a % 2 = 1 /\ b % 2 = 0 THEN 1 ELSE 0) + 2 * BitAndNot(a \div 2, b \div 2)

OctDigits == <<"0", "1", "2", "3", "4", "5", "6", "7">>

RECURSIVE ToOctal(_)
\* format(n, "o")
ToOctal(n) ==
  IF n < 8 THEN <<OctDigits[n + 1]>> ELSE Append(ToOctal(n \div 8), OctDigits[(n % 8) + 1])

RECURSIVE ZeroPad(_, _)
ZeroPad(s, width) == IF Len(s) >= width THEN s ELSE ZeroPad(<<"0">> \o s, width)

\* _fmt_mode(node): kind character followed by f"{node.mode:04o}"
fmt_mode(node) == <<IF is_dir(node) THEN "d" ELSE "-">> \o ZeroPad(ToOctal(node.mode), 4)

RECURSIVE StrLess(_, _)
\* a < b for Python strings (by code point)
StrLess(a, b) ==
  IF Len(b) = 0 THEN FALSE
  ELSE IF Len(a) = 0 THEN TRUE
  ELSE IF a[1] = b[1] THEN StrLess(Tail(a), Tail(b))
  ELSE Ord(a[1]) < Ord(b[1])

RECURSIVE Sorted(_)
\* sorted(S) for a set of strings
Sorted(S) ==
  IF S = {} THEN <<>>
  ELSE LET m == CHOOSE x \in S : \A y \in S \ {x} : StrLess(x, y)
       IN  <<m>> \o Sorted(S \ {m})

----------------------------------------------------------------------------
(* The built-in commands.  Each returns what the handler returns (ok), the *)
(* lines it prints (out) and the tree, working directory and clock after. *)

Result(ok, lines, rt, cwd, clk) ==
  [ok |-> ok, out |-> lines, root |-> rt, cwd |-> cwd, clock |-> clk]

RECURSIVE LsFlagChars(_, _, _)
\* the inner loop of cmd_ls over the letters of one option argument
LsFlagChars(flags, long, all) ==
  IF Len(flags) = 0 THEN [err |-> FALSE, ch |-> "", long |-> long, all |-> all]
  ELSE IF flags[1] = "l" THEN LsFlagChars(Tail(flags), TRUE, all)
  ELSE IF flags[1] = "a" THEN LsFlagChars(Tail(flags), long, TRUE)
  ELSE [err |-> TRUE, ch |-> flags[1], long |-> long, all |-> all]

RECURSIVE LsFlags(_, _, _, _)
\* the option loop of cmd_ls from args[i] on
LsFlags(args, i, long, all) ==
  IF i <= Len(args) /\ StartsWith(args[i], "-") /\ args[i] # <<"-">>
    THEN LET f == LsFlagChars(Tail(args[i]), long, all) IN
         IF f.err THEN [err |-> TRUE, ch |-> f.ch, i |-> i, long |-> long, all |-> all]
         ELSE LsFlags(args, i + 1, f.long, f.all)
  ELSE [err |-> FALSE, ch |-> "", i |-> i, long |-> long, all |-> all]

RECURSIVE LsParent(_, _, _)
\* the loop of cmd_ls that finds the node listed as "..": parent after segs
LsParent(parent, segs, node) ==
  IF Len(segs) = 0 THEN parent
  ELSE IF ~HasChild(parent, segs[1]) THEN node
  ELSE LsParent(parent.children[segs[1]], Tail(segs), node)

\* a listing that leaves the dot-prefixed children out even with -a
LsEntries_HidesDotNames(rt, parts, node, all) ==
  LET sorted == Sorted(DOMAIN node.children)
      names == SelectSeq(sorted, LAMBDA n : ~StartsWith(n, "."))
      dots == IF ~all THEN <<>>
              ELSE IF Len(parts) > 0
                THEN << <<Dot, node>>, <<DotDot, LsParent(rt, ButLast(parts), node)>> >>
              ELSE << <<Dot, node>>, <<DotDot, node>> >>
  IN  dots \o [k \in 1..Len(names) |-> <<names[k], node.children[names[k]]>>]

\* the entries cmd_ls lists for the directory node at parts: <<name, node>> pairs
LsEntries(rt, parts, node, all) ==
  LET sorted == Sorted(DOMAIN node.children)
      names == IF all THEN sorted
               ELSE SelectSeq(sorted, LAMBDA n : ~StartsWith(n, "."))
      dots == IF ~all THEN <<>>
              ELSE IF Len(parts) > 0
                THEN << <<Dot, node>>, <<DotDot, LsParent(rt, ButLast(parts), node)>> >>
              ELSE << <<Dot, node>>, <<DotDot, node>> >>
  IN  dots \o [k \in 1..Len(names) |-> <<names[k], node.children[names[k]]>>]

\* the lines cmd_ls prints for its entries
LsLines(entries, long) ==
  IF long THEN [k \in 1..Len(entries) |-> <<"ls", fmt_mode(entries[k][2]) \o <<" ">> \o entries[k][1]>>]
  ELSE IF Len(entries) > 0
    THEN << <<"ls", JoinWith([k \in 1..Len(entries) |-> entries[k][1]], <<" ", " ">>)>> >>
  ELSE <<>>

cmd_ls(args, rt, cwd, clk) ==
  LET f == LsFlags(args, 1, FALSE, FALSE) IN
  IF f.err THEN Result(FALSE, << <<"ls: unknown option", f.ch>> >>, rt, cwd, clk)
  ELSE
    LET target == IF f.i <= Len(args) THEN args[f.i] ELSE Dot
        r == resolve(rt, cwd, target)
    IN  IF IsNone(r.node)
          THEN Result(FALSE, << <<"ls: cannot open", target>> >>, rt, cwd, clk)
        ELSE IF is_file(r.node)
          THEN LET nm == IF Len(r.parts) > 0 THEN r.parts[Len(r.parts)] ELSE target
               IN  Result(TRUE, LsLines(<< <<nm, r.node>> >>, f.long), rt, cwd, clk)
        ELSE Result(TRUE, LsLines(LsEntries(rt, r.parts, r.node, f.all), f.long), rt, cwd, clk)

\* a cd that accepts any node the path designates, a file included
cmd_cd_AcceptsFile(args, rt, cwd, clk) ==
  IF Len(args) # 1 THEN Result(FALSE, << <<"cd: needs exactly 1 argument">> >>, rt, cwd, clk)
  ELSE
    LET r == resolve(rt, cwd, args[1]) IN
    IF IsNone(r.node)
      THEN Result(FALSE, << <<"cd: no such directory", args[1]>> >>, rt, cwd, clk)
    ELSE Result(TRUE, <<>>, rt, r.parts, clk)

\* a cd that does not look at what the path designates
cmd_cd_Unchecked(args, rt, cwd, clk) ==
  IF Len(args) = 0 THEN Result(FALSE, << <<"cd: needs exactly 1 argument">> >>, rt, cwd, clk)
  ELSE Result(TRUE, <<>>, rt, resolve(rt, cwd, args[1]).parts, clk)

\* cmd_cd(args)
cmd_cd(args, rt, cwd, clk) ==
  IF Len(args) # 1 THEN Result(FALSE, << <<"cd: needs exactly 1 argument">> >>, rt, cwd, clk)
  ELSE
    LET r == resolve(rt, cwd, args[1]) IN
    IF IsNone(r.node) \/ ~is_dir(r.node)
      THEN Result(FALSE, << <<"cd: no such directory", args[1]>> >>, rt, cwd, clk)
    ELSE Result(TRUE, <<>>, rt, r.parts, clk)

cmd_date(rt, cwd, clk) == Result(TRUE, << <<"date", clk>> >>, rt, cwd, clk)

\* chr(b) for an ASCII byte
Chr(b) ==
  IF b = 10 THEN "\n" ELSE IF b = 9 THEN "\t" ELSE IF b = 13 THEN "\r"
  ELSE IF b >= 32 /\ b <= 126 THEN Printable[b - 31] ELSE "?"

\* content.decode("utf-8").  The contents of the model hold ASCII bytes and
\* bytes from 0x80 on that start no valid sequence; multi-byte characters
\* are outside its alphabet.
DecodeUtf8(bytes) ==
  IF \E k \in 1..Len(bytes) : bytes[k] >= 128 THEN [err |-> TRUE, text |-> <<>>]
  ELSE [err |-> FALSE, text |-> [k \in 1..Len(bytes) |-> Chr(bytes[k])]]

RECURSIVE TacChunks_SplitPieces(_, _)
\* the pieces between line feeds, the one after the last line feed included
TacChunks_SplitPieces(text, cur) ==
  IF Len(text) = 0 THEN <<cur>>
  ELSE IF text[1] = "\n" THEN <<Append(cur, "\n")>> \o TacChunks_SplitPieces(Tail(text), <<>>)
  ELSE TacChunks_SplitPieces(Tail(text), Append(cur, text[1]))

RECURSIVE TacChunks(_, _)
\* re.findall(r'.*?\n|.+\Z', text, flags=re.DOTALL): cur is the chunk begun
TacChunks(text, cur) ==
  IF Len(text) = 0 THEN (IF Len(cur) > 0 THEN <<cur>> ELSE <<>>)
  ELSE IF text[1] = "\n" THEN <<Append(cur, "\n")>> \o TacChunks(Tail(text), <<>>)
  ELSE TacChunks(Tail(text), Append(cur, text[1]))

Reverse(s) == [k \in 1..Len(s) |-> s[Len(s) + 1 - k]]

\* the line cmd_tac prints for one chunk
TacLine(chunk) ==
  IF Len(chunk) > 0 /\ chunk[Len(chunk)] = "\n" THEN ButLast(chunk) ELSE chunk

cmd_tac(args, rt, cwd, clk) ==
  IF Len(args) # 1 THEN Result(FALSE, << <<"tac: needs exactly 1 argument">> >>, rt, cwd, clk)
  ELSE
    LET r == resolve(rt, cwd, args[1]) IN
    IF IsNone(r.node) THEN Result(FALSE, << <<"tac: no such file", args[1]>> >>, rt, cwd, clk)
    ELSE IF ~is_file(r.node) THEN Result(FALSE, << <<"tac: is a directory", args[1]>> >>, rt, cwd, clk)
    ELSE LET d == DecodeUtf8(r.node.content) IN
      IF d.err THEN Result(FALSE, << <<"tac: cannot decode as UTF-8", args[1]>> >>, rt, cwd, clk)
      ELSE LET chunks == Reverse(TacChunks(d.text, <<>>))
           IN  Result(TRUE, [k \in 1..Len(chunks) |-> <<"tac", TacLine(chunks[k])>>], rt, cwd, clk)

\* datetime.now(): time does not run backwards
Now(clk) == Min(clk + 1, MaxClock)

\* a touch that stores a new empty file whether or not the target exists
cmd_touch_Recreates(args, rt, cwd, clk) ==
  IF Len(args) # 1 THEN Result(FALSE, << <<"touch: needs exactly 1 argument">> >>, rt, cwd, clk)
  ELSE
    LET target == args[1]
        rp == resolve_parent(rt, cwd, target)
    IN  IF IsNone(rp.node) \/ ~is_dir(rp.node)
          THEN Result(FALSE, << <<"touch: parent directory not found", target>> >>, rt, cwd, clk)
        ELSE
          LET r == resolve(rt, cwd, target)
              now == Now(clk)
          IN  Result(TRUE, << <<"touch: created empty file", target>> >>,
                     ReplaceAt(rt, r.parts, FileNode(<<>>, FileMode, now)), cwd, now)

\* a touch that checks that the parent was found but not that it is a directory
cmd_touch_AnyParent(args, rt, cwd, clk) ==
  IF Len(args) # 1 THEN Result(FALSE, << <<"touch: needs exactly 1 argument">> >>, rt, cwd, clk)
  ELSE
    LET target == args[1]
        rp == resolve_parent(rt, cwd, target)
    IN  IF IsNone(rp.node)
          THEN Result(FALSE, << <<"touch: parent directory not found", target>> >>, rt, cwd, clk)
        ELSE
          LET r == resolve(rt, cwd, target)
              now == Now(clk)
          IN  IF ~IsNone(r.node)
                THEN Result(TRUE, << <<"touch: mtime updated", target>> >>,
                            ReplaceAt(rt, r.parts, [r.node EXCEPT !.mtime = now]), cwd, now)
              ELSE Result(TRUE, << <<"touch: created empty file", target>> >>,
                          ReplaceAt(rt, rp.parts,
                                    PutChild(rp.node, rp.basename, FileNode(<<>>, FileMode, now))),
                          cwd, now)

\* a touch that empties the file it finds
cmd_touch_TruncatesExisting(args, rt, cwd, clk) ==
  IF Len(args) # 1 THEN Result(FALSE, << <<"touch: needs exactly 1 argument">> >>, rt, cwd, clk)
  ELSE
    LET target == args[1]
        rp == resolve_parent(rt, cwd, target)
    IN  IF IsNone(rp.node) \/ ~is_dir(rp.node)
          THEN Result(FALSE, << <<"touch: parent directory not found", target>> >>, rt, cwd, clk)
        ELSE
          LET r == resolve(rt, cwd, target)
              now == Now(clk)
          IN  IF ~IsNone(r.node)
                THEN Result(TRUE, << <<"touch: mtime updated", target>> >>,
                            ReplaceAt(rt, r.parts, [r.node EXCEPT !.mtime = now, !.content = <<>>]),
                            cwd, now)
              ELSE Result(TRUE, << <<"touch: created empty file", target>> >>,
                          ReplaceAt(rt, rp.parts,
                                    PutChild(rp.node, rp.basename, FileNode(<<>>, FileMode, now))),
                          cwd, now)

cmd_touch(args, rt, cwd, clk) ==
  IF Len(args) # 1 THEN Result(FALSE, << <<"touch: needs exactly 1 argument">> >>, rt, cwd, clk)
  ELSE
    LET target == args[1]
        rp == resolve_parent(rt, cwd, target)
    IN  IF IsNone(rp.node) \/ ~is_dir(rp.node)
          THEN Result(FALSE, << <<"touch: parent directory not found", target>> >>, rt, cwd, clk)
        ELSE
          LET r == resolve(rt, cwd, target)
              now == Now(clk)
          IN  IF ~IsNone(r.node)
                THEN Result(TRUE, << <<"touch: mtime updated", target>> >>,
                            ReplaceAt(rt, r.parts, [r.node EXCEPT !.mtime = now]), cwd, now)
              ELSE Result(TRUE, << <<"touch: created empty file", target>> >>,
                          ReplaceAt(rt, rp.parts,
                                    PutChild(rp.node, rp.basename, FileNode(<<>>, FileMode, now))),
                          cwd, now)

----------------------------------------------------------------------------
(* chmod *)

ModeMask == 511   \* 0o777

RECURSIVE ClassPrefixLen(_, _)
\* the number of leading characters of clause in "ugoa", counted from i
ClassPrefixLen(clause, i) ==
  IF i <= Len(clause) /\ clause[i] \in {"u", "g", "o", "a"}
    THEN ClassPrefixLen(clause, i + 1) ELSE i - 1

\* the shifts of group and others exchanged
ClassShift_GroupOtherSwapped(cls) == CASE cls = "u" -> 64 [] cls = "g" -> 1 [] OTHER -> 8

ClassShift(cls) == CASE cls = "u" -> 64 [] cls = "g" -> 8 [] OTHER -> 1

ClassMask(cls) == CASE cls = "u" -> 448 [] cls = "g" -> 56 [] cls = "o" -> 7 [] OTHER -> 511

\* "X" read as "x": execute granted whatever the target is
XApplies_Always(cur_mode, isdir) == TRUE

\* whether "X" grants execute: the target is a directory or cur_mode has an execute bit
XApplies(cur_mode, isdir) == isdir \/ BitAnd(cur_mode, 73) # 0

RECURSIVE bits_for(_, _, _, _)
\* bits_for(perms_local, cls_char) inside _chmod_apply_symbolic(cur_mode, ., is_dir)
bits_for(perms, cls, cur_mode, isdir) ==
  IF Len(perms) = 0 THEN 0
  ELSE LET rest == bits_for(Tail(perms), cls, cur_mode, isdir)
           bit == CASE perms[1] = "r" -> 4 * ClassShift(cls)
                    [] perms[1] = "w" -> 2 * ClassShift(cls)
                    [] perms[1] = "x" -> ClassShift(cls)
                    [] perms[1] = "X" ->
                         IF XApplies(cur_mode, isdir) THEN ClassShift(cls) ELSE 0
                    [] OTHER -> 0
       IN  BitOr(bit, rest)

RECURSIVE ClassMaskAll(_)
ClassMaskAll(classes) ==
  IF Len(classes) = 0 THEN 0 ELSE BitOr(ClassMask(classes[1]), ClassMaskAll(Tail(classes)))

\* the mask the three operator branches build: bits_for of every selected class
SelectedBits(perms, classes, cur_mode, isdir) ==
  LET sel(cls) == (\E k \in 1..Len(classes) : classes[k] = "a")
                  \/ (\E k \in 1..Len(classes) : classes[k] = cls)
      b(cls) == IF sel(cls) THEN bits_for(perms, cls, cur_mode, isdir) ELSE 0
  IN  BitOr(b("u"), BitOr(b("g"), b("o")))

\* "=" that assigns the mask without keeping the bits outside the selected classes
ApplyOp_AssignWhole(op, cur_mode, mask, class_mask_all) ==
  CASE op = "=" -> BitAnd(mask, class_mask_all)
    [] op = "+" -> BitOr(cur_mode, mask)
    [] OTHER -> BitAndNot(cur_mode, mask)

\* the mode the operator op gives from cur_mode
ApplyOp(op, cur_mode, mask, class_mask_all) ==
  CASE op = "=" -> BitOr(BitAndNot(cur_mode, class_mask_all), BitAnd(mask, class_mask_all))
    [] op = "+" -> BitOr(cur_mode, mask)
    [] OTHER -> BitAndNot(cur_mode, mask)

\* _chmod_apply_symbolic(cur_mode, clause, is_dir): exc is the ValueError raised (Nil: none)
chmod_apply_symbolic(cur_mode, clause, isdir) ==
  LET n == ClassPrefixLen(clause, 1)
      classes == IF n = 0 THEN <<"a">> ELSE SubSeq(clause, 1, n)
      i == n + 1
  IN  IF i > Len(clause) \/ clause[i] \notin {"+", "-", "="}
        THEN [exc |-> [what |-> "bad chmod syntax", text |-> clause], mode |-> cur_mode]
      ELSE IF i + 1 > Len(clause)
        THEN [exc |-> [what |-> "bad chmod syntax", text |-> clause], mode |-> cur_mode]
      ELSE
        LET perms == SubSeq(clause, i + 1, Len(clause)) IN
        IF \E k \in 1..Len(perms) : perms[k] \notin {"r", "w", "x", "X"}
          THEN [exc |-> [what |-> "bad chmod perms", text |-> perms], mode |-> cur_mode]
        ELSE [exc |-> Nil,
              mode |-> BitAnd(ApplyOp(clause[i], cur_mode,
                                      SelectedBits(perms, classes, cur_mode, isdir),
                                      ClassMaskAll(classes)),
                              ModeMask)]

RECURSIVE ApplyClauses_RightToLeft(_, _, _)
\* a clause loop that starts from the last clause
ApplyClauses_RightToLeft(cur, clauses, isdir) ==
  IF Len(clauses) = 0 THEN [exc |-> Nil, mode |-> cur]
  ELSE LET r == chmod_apply_symbolic(cur, clauses[Len(clauses)], isdir) IN
       IF r.exc # Nil THEN r
       ELSE ApplyClauses_RightToLeft(r.mode, SubSeq(clauses, 1, Len(clauses) - 1), isdir)

RECURSIVE ApplyClauses(_, _, _)
\* the clause loop of cmd_chmod for one node, starting from mode cur
ApplyClauses(cur, clauses, isdir) ==
  IF Len(clauses) = 0 THEN [exc |-> Nil, mode |-> cur]
  ELSE LET r == chmod_apply_symbolic(cur, clauses[1], isdir) IN
       IF r.exc # Nil THEN r ELSE ApplyClauses(r.mode, Tail(clauses), isdir)

RECURSIVE WalkNumeric_KeepsOldBits(_, _, _)
\* a loop that ORs mode_val into the mode instead of assigning it
WalkNumeric_KeepsOldBits(node, recursive, mode_val) ==
  LET here == [node EXCEPT !.mode = BitOr(node.mode, mode_val)] IN
  IF recursive /\ is_dir(node)
    THEN [here EXCEPT !.children =
            [k \in DOMAIN node.children |-> WalkNumeric_KeepsOldBits(node.children[k], TRUE, mode_val)]]
  ELSE here

RECURSIVE WalkNumeric(_, _, _)
\* the loop over _chmod_walk(node, recursive) that assigns mode_val
WalkNumeric(node, recursive, mode_val) ==
  LET here == [node EXCEPT !.mode = mode_val] IN
  IF recursive /\ is_dir(node)
    THEN [here EXCEPT !.children =
            [k \in DOMAIN node.children |-> WalkNumeric(node.children[k], TRUE, mode_val)]]
  ELSE here

RECURSIVE WalkWithFlag(_, _, _, _)
\* a walk that applies the clauses to every node with one directory flag
WalkWithFlag(node, recursive, clauses, isdir) ==
  LET r == ApplyClauses(node.mode, clauses, isdir) IN
  IF r.exc # Nil THEN [exc |-> r.exc, node |-> node]
  ELSE
    LET here == [node EXCEPT !.mode = BitAnd(r.mode, ModeMask)] IN
    IF recursive /\ is_dir(node)
      THEN [exc |-> Nil,
            node |-> [here EXCEPT !.children =
                        [k \in DOMAIN node.children |->
                           WalkWithFlag(node.children[k], TRUE, clauses, isdir).node]]]
    ELSE [exc |-> Nil, node |-> here]

\* the directory flag of the node the walk starts from, used for its whole subtree
WalkSymbolic_InheritsFlag(node, recursive, clauses) ==
  WalkWithFlag(node, recursive, clauses, is_dir(node))

RECURSIVE WalkSymbolic_AssignsPerClause(_, _, _)
\* a loop that assigns the mode after each clause, so that a clause that
\* raises leaves the node with what the clauses before it gave
WalkSymbolic_AssignsPerClause(node, recursive, clauses) ==
  LET r == ApplyClauses(node.mode, clauses, is_dir(node)) IN
  IF r.exc # Nil THEN [exc |-> r.exc, node |-> [node EXCEPT !.mode = BitAnd(r.mode, ModeMask)]]
  ELSE
    LET here == [node EXCEPT !.mode = BitAnd(r.mode, ModeMask)] IN
    IF recursive /\ is_dir(node)
      THEN LET sub == [k \in DOMAIN node.children |->
                         WalkSymbolic_AssignsPerClause(node.children[k], TRUE, clauses)]
           IN  [exc |-> IF \E k \in DOMAIN sub : sub[k].exc # Nil
                          THEN (CHOOSE e \in {sub[k].exc : k \in DOMAIN sub} : e # Nil)
                        ELSE Nil,
                node |-> [here EXCEPT !.children = [k \in DOMAIN sub |-> sub[k].node]]]
    ELSE [exc |-> Nil, node |-> here]

RECURSIVE WalkSymbolic(_, _, _)
\* the loop over _chmod_walk(node, recursive) that applies the clauses.  A
\* ValueError depends on the clauses alone, so it is raised at the first node
\* of the walk, before any mode is assigned: exc at a node leaves it as it was.
WalkSymbolic(node, recursive, clauses) ==
  LET r == ApplyClauses(node.mode, clauses, is_dir(node)) IN
  IF r.exc # Nil THEN [exc |-> r.exc, node |-> node]
  ELSE
    LET here == [node EXCEPT !.mode = BitAnd(r.mode, ModeMask)] IN
    IF recursive /\ is_dir(node)
      THEN LET sub == [k \in DOMAIN node.children |-> WalkSymbolic(node.children[k], TRUE, clauses)]
           IN  [exc |-> IF \E k \in DOMAIN sub : sub[k].exc # Nil
                          THEN (CHOOSE e \in {sub[k].exc : k \in DOMAIN sub} : e # Nil)
                        ELSE Nil,
                node |-> [here EXCEPT !.children = [k \in DOMAIN sub |-> sub[k].node]]]
    ELSE [exc |-> Nil, node |-> here]

RECURSIVE ParseOctal(_, _)
\* int(text, 8) for a text of octal digits
ParseOctal(text, acc) ==
  IF Len(text) = 0 THEN acc
  ELSE ParseOctal(Tail(text), acc * 8 + (CHOOSE d \in 0..7 : OctDigits[d + 1] = text[1]))

IsOctalDigit(c) == \E d \in 1..8 : OctDigits[d] = c

\* is_numeric in cmd_chmod
IsNumericMode(mode_spec) ==
  Len(mode_spec) \in {3, 4} /\ \A k \in 1..Len(mode_spec) : IsOctalDigit(mode_spec[k])

RECURSIVE NonEmptyStripped(_)
\* [c.strip() for c in pieces if c.strip()]
NonEmptyStripped(pieces) ==
  IF Len(pieces) = 0 THEN <<>>
  ELSE IF Len(Strip(pieces[1])) = 0 THEN NonEmptyStripped(Tail(pieces))
  ELSE <<Strip(pieces[1])>> \o NonEmptyStripped(Tail(pieces))

\* a chmod that assigns the value of the octal digits without masking it
cmd_chmod_Unmasked(args, rt, cwd, clk) ==
  IF Len(args) = 0 THEN Result(FALSE, << <<"chmod: needs 2 arguments">> >>, rt, cwd, clk)
  ELSE
    LET recursive == args[1] = <<"-", "R">>
        i == IF recursive THEN 2 ELSE 1
    IN
    IF Len(args) - (i - 1) # 2 THEN Result(FALSE, << <<"chmod: needs 2 arguments">> >>, rt, cwd, clk)
    ELSE
      LET mode_spec == args[i]
          target == args[i + 1]
          r == resolve(rt, cwd, target)
      IN
      IF IsNone(r.node) THEN Result(FALSE, << <<"chmod: no such file or directory", target>> >>, rt, cwd, clk)
      ELSE IF IsNumericMode(mode_spec)
        THEN LET mode_val == ParseOctal(mode_spec, 0)
             IN  Result(TRUE, << <<"chmod: set", ZeroPad(ToOctal(mode_val), 4), target, recursive>> >>,
                        ReplaceAt(rt, r.parts, WalkNumeric(r.node, recursive, mode_val)), cwd, clk)
      ELSE
        LET clauses == NonEmptyStripped(Split(mode_spec, ",")) IN
        IF Len(clauses) = 0 THEN Result(FALSE, << <<"chmod: bad mode", mode_spec>> >>, rt, cwd, clk)
        ELSE LET w == WalkSymbolic(r.node, recursive, clauses) IN
          IF w.exc # Nil
            THEN Result(FALSE, << <<"chmod:", w.exc>> >>, ReplaceAt(rt, r.parts, w.node), cwd, clk)
          ELSE Result(TRUE, << <<"chmod: applied", mode_spec, target, recursive>> >>,
                      ReplaceAt(rt, r.parts, w.node), cwd, clk)

cmd_chmod(args, rt, cwd, clk) ==
  IF Len(args) = 0 THEN Result(FALSE, << <<"chmod: needs 2 arguments">> >>, rt, cwd, clk)
  ELSE
    LET recursive == args[1] = <<"-", "R">>
        i == IF recursive THEN 2 ELSE 1
    IN
    IF Len(args) - (i - 1) # 2 THEN Result(FALSE, << <<"chmod: needs 2 arguments">> >>, rt, cwd, clk)
    ELSE
      LET mode_spec == args[i]
          target == args[i + 1]
          r == resolve(rt, cwd, target)
      IN
      IF IsNone(r.node) THEN Result(FALSE, << <<"chmod: no such file or directory", target>> >>, rt, cwd, clk)
      ELSE IF IsNumericMode(mode_spec)
        THEN LET mode_val == BitAnd(ParseOctal(mode_spec, 0), ModeMask)
             IN  Result(TRUE, << <<"chmod: set", ZeroPad(ToOctal(mode_val), 4), target, recursive>> >>,
                        ReplaceAt(rt, r.parts, WalkNumeric(r.node, recursive, mode_val)), cwd, clk)
      ELSE
        LET clauses == NonEmptyStripped(Split(mode_spec, ",")) IN
        IF Len(clauses) = 0 THEN Result(FALSE, << <<"chmod: bad mode", mode_spec>> >>, rt, cwd, clk)
        ELSE LET w == WalkSymbolic(r.node, recursive, clauses) IN
          IF w.exc # Nil
            THEN Result(FALSE, << <<"chmod:", w.exc>> >>, ReplaceAt(rt, r.parts, w.node), cwd, clk)
          ELSE Result(TRUE, << <<"chmod: applied", mode_spec, target, recursive>> >>,
                      ReplaceAt(rt, r.parts, w.node), cwd, clk)

----------------------------------------------------------------------------
(* The dispatcher *)

C_ls == <<"l", "s">>
C_cd == <<"c", "d">>
C_date == <<"d", "a", "t", "e">>
C_tac == <<"t", "a", "c">>
C_touch == <<"t", "o", "u", "c", "h">>
C_chmod == <<"c", "h", "m", "o", "d">>
C_vfs_info == <<"v", "f", "s", "-", "i", "n", "f", "o">>
C_pwd == <<"p", "w", "d">>
C_exit == <<"e", "x", "i", "t">>

\* cwd_str()
cwd_str(cwd) == <<"/">> \o Join(cwd, "/")

\* the vfs-info branch of exec: the message depends on vfs.name
VfsInfoLine(nm, bytes) ==
  IF nm = None THEN <<"VFS not loaded">> ELSE <<"VFS", nm, bytes>>

\* the dispatch of exec on the parsed line pcl: (ok, terminate), the lines
\* printed, and the state after.  The handlers raise nothing that their own
\* code does not catch, so the "except Exception" branch is never taken.
Dispatch(pcl, rt, cwd, clk, nm, bytes) ==
  LET cmd == pcl.cmd
      args == pcl.args
      same(ok, lines) == Result(ok, lines, rt, cwd, clk)
      ret(r, term) == [ok |-> r.ok, term |-> term, out |-> r.out, root |-> r.root,
                       cwd |-> r.cwd, clock |-> r.clock]
  IN  IF pcl.perr THEN ret(same(FALSE, << <<"parse error">> >>), FALSE)
      ELSE IF cmd = <<>> THEN ret(same(TRUE, <<>>), FALSE)
      ELSE IF cmd = C_ls THEN ret(cmd_ls(args, rt, cwd, clk), FALSE)
      ELSE IF cmd = C_cd THEN ret(cmd_cd(args, rt, cwd, clk), FALSE)
      ELSE IF cmd = C_date THEN ret(cmd_date(rt, cwd, clk), FALSE)
      ELSE IF cmd = C_tac THEN ret(cmd_tac(args, rt, cwd, clk), FALSE)
      ELSE IF cmd = C_touch THEN ret(cmd_touch(args, rt, cwd, clk), FALSE)
      ELSE IF cmd = C_chmod THEN ret(cmd_chmod(args, rt, cwd, clk), FALSE)
      ELSE IF cmd = C_vfs_info THEN ret(same(TRUE, << VfsInfoLine(nm, bytes) >>), FALSE)
      ELSE IF cmd = C_pwd THEN ret(same(TRUE, << <<"pwd", cwd_str(cwd)>> >>), FALSE)
      ELSE IF cmd = C_exit THEN ret(same(TRUE, << <<"exit: shutting down">> >>), TRUE)
      ELSE ret(same(FALSE, << <<"unknown command", cmd>> >>), FALSE)

\* exec(line): the line is parsed once, then dispatched
exec(line, rt, cwd, clk, nm, bytes) ==
  CHOOSE r \in {Dispatch(pcl, rt, cwd, clk, nm, bytes) : pcl \in {parse_command_line(line)}} : TRUE

----------------------------------------------------------------------------
(* The files named on the command line *)

NotGiven == [given |-> FALSE]

Row(path, type, encoding, content) ==
  [path |-> path, type |-> type, encoding |-> encoding, content |-> content]

\* a description file of rows (the CSV reader's dictionaries)
CsvFile(rows) ==
  [given |-> TRUE, exists |-> TRUE, fname |-> "vfs.csv",
   data |-> [decodable |-> TRUE, rows |-> rows]]

\* a description file that is not UTF-8
BinaryFile ==
  [given |-> TRUE, exists |-> TRUE, fname |-> "vfs.csv",
   data |-> [decodable |-> FALSE, rows |-> <<>>]]

\* a path that names no file
MissingFile ==
  [given |-> TRUE, exists |-> FALSE, fname |-> "vfs.csv",
   data |-> [decodable |-> FALSE, rows |-> <<>>]]

ScriptFile(lines) == [given |-> TRUE, exists |-> TRUE, lines |-> lines]

MissingScript == [given |-> TRUE, exists |-> FALSE, lines |-> <<>>]

\* all sequences over S of length at most n
SeqsUpTo(S, n) == UNION {[1..k -> S] : k \in 0..n}

----------------------------------------------------------------------------
(* The emulator: construction and the callbacks of the event loop *)

NoExec(who) == [who |-> who, lineno |-> 0, line |-> <<>>, ran |-> FALSE, ok |-> TRUE, term |-> FALSE]

Ran(who, lineno, line, r) ==
  [who |-> who, lineno |-> lineno, line |-> line, ran |-> TRUE, ok |-> r.ok, term |-> r.term]

\* the state after VFS() and cwd_parts = [] in __init__, for the files given
InitWith(files, scripts) ==
  /\ pc = "construct"
  /\ vfs_path \in files
  /\ startup_script \in scripts
  /\ root = DirNode(DirMode, 0)
  /\ raw_bytes = Nil
  /\ name = None
  /\ cwd_parts = <<>>
  /\ script_lines = <<>>
  /\ script_index = 0
  /\ pending = {}
  /\ clock = 0
  /\ submits = 0
  /\ out = <<>>
  /\ last = NoExec("init")
  /\ hist = [load |-> "none", load_exc |-> Nil, outcome |-> "none", executed |-> <<>>,
             echoed |-> <<>>, reported |-> 0, completed_msg |-> FALSE]
  /\ probe = Nil

\* _load_vfs_if_any and the rest of __init__
LoadVfsIfAny ==
  /\ pc = "construct"
  /\ pc' = "mainloop"
  /\ IF ~vfs_path.given
       THEN /\ UNCHANGED <<root, raw_bytes, name, hist>>
            /\ out' = << <<"welcome">> >>
       ELSE \E r \in {load_from_csv(vfs_path, root, raw_bytes, name, clock)} :
            /\ root' = r.root
            /\ raw_bytes' = r.raw_bytes
            /\ name' = r.name
            /\ out' = IF r.exc = Nil THEN << <<"[vfs] loaded", r.name>>, <<"welcome">> >>
                      ELSE << <<"[vfs] error", r.exc>>, <<"welcome">> >>
            /\ hist' = [hist EXCEPT !.load = IF r.exc = Nil THEN "ok" ELSE "failed",
                                    !.load_exc = r.exc]
  /\ pending' = IF startup_script.given THEN {"startup"} ELSE {}
  /\ last' = NoExec("construct")
  /\ UNCHANGED <<vfs_path, startup_script, cwd_parts, script_lines, script_index, clock,
                 submits, probe>>

\* _run_startup_script_safe
RunStartupScriptSafe ==
  /\ pc = "mainloop"
  /\ "startup" \in pending
  /\ IF ~startup_script.exists
       THEN /\ pending' = pending \ {"startup"}
            /\ out' = << <<"[script] file not found">> >>
            /\ UNCHANGED <<script_lines, script_index, hist>>
       ELSE /\ script_lines' = [k \in 1..Len(startup_script.lines) |-> <<k, startup_script.lines[k]>>]
            /\ script_index' = 0
            /\ out' = << <<"[script] start">> >>
            /\ pending' = (pending \ {"startup"}) \cup {"step"}
            /\ hist' = [hist EXCEPT !.outcome = "running"]
  /\ last' = NoExec("startup")
  /\ UNCHANGED <<pc, vfs_path, startup_script, root, raw_bytes, name, cwd_parts, clock,
                 submits, probe>>

\* a runner that tests the raw line, not the stripped one
IsSkipped_Raw(line) == line = <<>> \/ StartsWith(line, "#")

\* whether _process_next_script_line skips the line
IsSkipped(line) == LET stripped == Strip(line) IN stripped = <<>> \/ StartsWith(stripped, "#")

\* a runner that goes on after a failed line
Reschedules_AfterFailure(ok, term) == ~term

\* a runner that goes on after a terminating command
Reschedules_AfterExit(ok, term) == ok

\* a runner that never registers its next step after a command
Reschedules_Never(ok, term) == FALSE

\* whether _process_next_script_line registers itself again after exec returned
Reschedules(ok, term) == ~term /\ ok

\* the lines _process_next_script_line prints after exec returned (ok, term)
AfterExecLines(ok, term, lineno) ==
  IF term THEN <<>>
  ELSE IF ~ok THEN << <<"[script] stopped on error at line", lineno>> >>
  ELSE <<>>

\* whether the lines printed hold a line with this tag
Printed(lines, tag) == \E k \in 1..Len(lines) : lines[k][1] = tag

\* the history after a run of _process_next_script_line that printed lines and
\* left the record l: which lines were echoed and passed to exec, what the
\* runner reported, how the run ended
Observed(h, lines, l) ==
  LET stopped == Printed(lines, "[script] stopped on error at line")
      done == Printed(lines, "[script] completed without errors")
  IN  [h EXCEPT
         !.executed = IF l.ran THEN Append(@, l.lineno) ELSE @,
         !.echoed = IF Printed(lines, "prompt") THEN Append(@, l.lineno) ELSE @,
         !.reported = IF stopped
                        THEN lines[CHOOSE k \in 1..Len(lines) :
                                     lines[k][1] = "[script] stopped on error at line"][2]
                        ELSE @,
         !.completed_msg = @ \/ done,
         !.outcome = IF l.who = "script_end" THEN "completed"
                     ELSE IF l.ran /\ l.term THEN "terminated"
                     ELSE IF l.ran /\ ~l.ok THEN "failed"
                     ELSE @]

\* _process_next_script_line
ProcessNextScriptLine ==
  /\ pc = "mainloop"
  /\ "step" \in pending
  /\ IF script_index >= Len(script_lines)
       THEN /\ out' = << <<"[script] completed without errors">> >>
            /\ pending' = pending \ {"step"}
            /\ last' = NoExec("script_end")
            /\ UNCHANGED <<script_index, root, cwd_parts, clock>>
            /\ hist' = Observed(hist, out', last')
       ELSE \E lineno \in {script_lines[script_index + 1][1]},
               line \in {script_lines[script_index + 1][2]} :
                /\ script_index' = script_index + 1
                /\ IF IsSkipped(line)
                     THEN /\ pending' = pending
                          /\ out' = <<>>
                          /\ last' = [NoExec("script") EXCEPT !.lineno = lineno, !.line = line]
                          /\ UNCHANGED <<root, cwd_parts, clock>>
                          /\ hist' = Observed(hist, out', last')
                     ELSE \E r \in {exec(line, root, cwd_parts, clock, name, raw_bytes)} :
                          /\ root' = r.root
                          /\ cwd_parts' = r.cwd
                          /\ clock' = r.clock
                          /\ out' = << <<"prompt", line>> >> \o r.out
                                    \o AfterExecLines(r.ok, r.term, lineno)
                          /\ last' = Ran("script", lineno, line, r)
                          /\ pending' = ((pending \ {"step"})
                                         \cup (IF r.term THEN {"destroy"} ELSE {}))
                                        \cup (IF Reschedules(r.ok, r.term) THEN {"step"} ELSE {})
                          /\ hist' = Observed(hist, out', last')
  /\ UNCHANGED <<pc, vfs_path, startup_script, raw_bytes, name, script_lines, submits, probe>>

\* a submit handler whose failing command withdraws the script's next step
HandleSubmit_StopsScript(text) ==
  /\ pc = "mainloop"
  /\ submits < MaxSubmits
  /\ submits' = submits + 1
  /\ \E stripped \in {Strip(text)} :
     IF stripped = <<>>
       THEN /\ out' = <<>>
            /\ last' = NoExec("submit")
            /\ UNCHANGED <<root, cwd_parts, clock, pending>>
       ELSE \E r \in {exec(stripped, root, cwd_parts, clock, name, raw_bytes)} :
            /\ root' = r.root
            /\ cwd_parts' = r.cwd
            /\ clock' = r.clock
            /\ out' = << <<"prompt", stripped>> >> \o r.out
            /\ last' = Ran("submit", 0, stripped, r)
            /\ pending' = (IF r.ok THEN pending ELSE pending \ {"step"})
                             \cup (IF r.term THEN {"destroy"} ELSE {})
  /\ UNCHANGED <<pc, vfs_path, startup_script, raw_bytes, name, script_lines, script_index,
                 hist, probe>>

\* handle_submit with entry.get() = text
HandleSubmit(text) ==
  /\ pc = "mainloop"
  /\ submits < MaxSubmits
  /\ submits' = submits + 1
  /\ \E stripped \in {Strip(text)} :
     IF stripped = <<>>
       THEN /\ out' = <<>>
            /\ last' = NoExec("submit")
            /\ UNCHANGED <<root, cwd_parts, clock, pending>>
       ELSE \E r \in {exec(stripped, root, cwd_parts, clock, name, raw_bytes)} :
            /\ root' = r.root
            /\ cwd_parts' = r.cwd
            /\ clock' = r.clock
            /\ out' = << <<"prompt", stripped>> >> \o r.out
            /\ last' = Ran("submit", 0, stripped, r)
            /\ pending' = pending \cup (IF r.term THEN {"destroy"} ELSE {})
  /\ UNCHANGED <<pc, vfs_path, startup_script, raw_bytes, name, script_lines, script_index,
                 hist, probe>>

\* root.destroy, registered by exit: the window and its pending callbacks are gone
Destroy ==
  /\ pc = "mainloop"
  /\ "destroy" \in pending
  /\ pc' = "destroyed"
  /\ pending' = {}
  /\ out' = <<>>
  /\ last' = NoExec("destroy")
  /\ UNCHANGED <<vfs_path, startup_script, root, raw_bytes, name, cwd_parts,
                 script_lines, script_index, clock, submits, hist, probe>>


----------------------------------------------------------------------------
(* The emulator on a loaded tree, driven by a script and by the user *)

\* the description: /d/e/, /d/f = "a\nb", /g = "x"
HomeFile ==
  CsvFile(<< Row(<<"d", "/", "e">>, <<"d", "i", "r">>, <<>>, <<>>),
             Row(<<"d", "/", "f">>, <<"f", "i", "l", "e">>, <<"b", "6", "4">>, <<"Y", "Q", "p", "i">>),
             Row(<<"/", "g">>, <<"f", "i", "l", "e">>, <<"b", "6", "4">>, <<"e", "A", "=", "=">>) >>)

HomeScript == ScriptFile(<< <<"c", "d", " ", "d">>, <<"t", "o", "u", "c", "h", " ", "n">>, <<"p", "w", "d">> >>)

\* what the user types
SubmitTexts ==
  { <<"l", "s">>, <<"l", "s", " ", "-", "l", "a", " ", "d">>, <<"p", "w", "d">>, <<"d", "a", "t", "e">>, <<"v", "f", "s", "-", "i", "n", "f", "o">>, <<"e", "x", "i", "t">>, <<"f", "o", "o">>,
    <<"c", "d", " ", "d">>, <<"c", "d", " ", "d", "/", "e">>, <<"c", "d", " ", ".", ".">>, <<"c", "d", " ", ".", "/", "d", "/", ".", ".", "/", "d", "/", "/", "e", "/">>, <<"c", "d", " ", "/", "g">>, <<"c", "d", " ", "x">>, <<"c", "d">>, <<"c", "d", " ", "d", " ", "e">>,
    <<" ", "c", "d", " ", "'", "d">>, <<"t", "a", "c", " ", "d", "/", "f">>, <<"t", "o", "u", "c", "h", " ", "n">>, <<"t", "o", "u", "c", "h", " ", "d">>, <<"t", "o", "u", "c", "h", " ", "d", "/", "f">>, <<"c", "h", "m", "o", "d", " ", "7", "0", "0", " ", "d">>, <<"c", "h", "m", "o", "d", " ", "-", "R", " ", "g", "o", "-", "r", "x", " ", "/", "d">> }

Init == InitWith({NotGiven, HomeFile}, {NotGiven, MissingScript, HomeScript})

Next ==
  \/ LoadVfsIfAny
  \/ RunStartupScriptSafe
  \/ ProcessNextScriptLine
  \/ \E text \in SubmitTexts : HandleSubmit(text)
  \/ Destroy

Spec == Init /\ [][Next]_vars

----------------------------------------------------------------------------
(* Claims about the working directory, checked under Spec *)

\* the command line the last step passed to the dispatcher
LastCommand == parse_command_line(last.line)

\* the last step ran cd with exactly one argument
RanCdWithOneArg ==
  /\ last.ran /\ ~LastCommand.perr
  /\ LastCommand.cmd = C_cd /\ Len(LastCommand.args) = 1

\* C9: the working directory changes only through a successful cd.  A step
\* that runs cd with one argument that resolves to a directory succeeds and
\* makes the working directory the canonical segments of the target; a cd
\* with a missing target, a file target or another number of arguments fails
\* and leaves it; every other step leaves it.
C9_CwdOnlyBySuccessfulCd ==
  [][ IF RanCdWithOneArg' /\ is_dir(resolve(root, cwd_parts, LastCommand'.args[1]).node)
        THEN /\ last'.ok
             /\ cwd_parts' = resolve(root, cwd_parts, LastCommand'.args[1]).parts
             /\ root' = root
        ELSE /\ cwd_parts' = cwd_parts
             /\ (last'.ran /\ ~LastCommand'.perr /\ LastCommand'.cmd = C_cd) => ~last'.ok ]_vars

\* C9 witness: a cd given a path with "." and ".." and doubled separators has
\* moved the working directory two levels down
C9_Witness ==
  /\ RanCdWithOneArg /\ last.ok
  /\ LastCommand.args[1] = <<".", "/", "d", "/", ".", ".", "/", "d", "/", "/", "e", "/">>
  /\ cwd_parts = << <<"d">>, <<"e">> >>

----------------------------------------------------------------------------
(* Inputs of the model SpecLoad: every description of at most MaxRows rows *)

LoadRowSet ==
  { Row(<<"a">>, <<"f", "i", "l", "e">>, <<>>, <<"x">>),
    Row(<<"a">>, <<"d", "i", "r">>, <<>>, <<>>),
    Row(<<"a", "/", "b">>, <<" ", "D", "i", "r", " ">>, <<>>, <<>>),
    Row(<<"a", "/", "b", "/", "c">>, <<"f", "i", "l", "e">>, <<"b", "6", "4">>, <<"Y", "Q", "=", "=">>),
    Row(<<"/", "a", "/", ".", "/", "e">>, <<"f", "i", "l", "e">>, <<"b", "a", "s", "e", "6", "4">>, <<"Y", "Q">>),
    Row(<<"d", "/", ".", ".", "/", "e">>, <<"d", "i", "r">>, <<>>, <<>>),
    Row(<<"a">>, <<"l", "i", "n", "k">>, <<>>, <<>>),
    Row(<<" ">>, <<"d", "i", "r">>, <<>>, <<>>),
    Row(<<"/">>, <<"f", "i", "l", "e">>, <<>>, <<>>),
    Row(<<"a", "/", "z">>, <<"f", "i", "l", "e">>, <<"z", "i", "p">>, <<"x">>) }

LoadFiles ==
  {NotGiven, MissingFile, BinaryFile} \cup {CsvFile(rows) : rows \in SeqsUpTo(LoadRowSet, MaxRows)}

\* what the user types while the model looks at the load
LoadSubmitTexts == { <<"v", "f", "s", "-", "i", "n", "f", "o">>, <<"l", "s", " ", "-", "l", "a", " ", "/">>, <<"c", "d", " ", "a">> }

InitLoad == InitWith(LoadFiles, {NotGiven})

NextLoad ==
  \/ LoadVfsIfAny
  \/ \E text \in LoadSubmitTexts : HandleSubmit(text)

SpecLoad == InitLoad /\ [][NextLoad]_vars


----------------------------------------------------------------------------
(* Claims about the loader, checked under SpecLoad *)

\* the rows of the description given to the emulator
GivenRows == IF vfs_path.given THEN vfs_path.data.rows ELSE <<>>

\* the segments a row's path names
RowSegments(row) == DropEmptyDot(Split(Strip(row.path), "/"))

\* the chain of directories a row asks for: all segments of a dir row, all
\* but the last of a file row
RowDirChain(row) ==
  IF Lower(Strip(row.type)) = T_dir THEN RowSegments(row) ELSE ButLast(RowSegments(row))

JustLoaded == pc = "mainloop" /\ last.who = "construct"

LoadFailedWith(what) == hist.load = "failed" /\ hist.load_exc.what = what

\* C5 (as the spec states it): the stored description bytes and name are set
\* if and only if a load completed without error, and vfs-info after a load
\* that did not complete prints the "not loaded" message.
C5_SourceSetIffLoaded ==
  /\ pc # "construct" => ((raw_bytes # Nil /\ name # None) <=> hist.load = "ok")
  /\ (last.ran /\ parse_command_line(last.line).cmd = C_vfs_info /\ hist.load # "ok")
       => out[2] = <<"VFS not loaded">>

\* C6 (as the spec states it): after a load that failed, the root holds none
\* of the nodes the rows before the failing row created.
C6_FailedLoadLeavesEmptyRoot ==
  (JustLoaded /\ hist.load = "failed") => DOMAIN root.children = {}

\* C7 (as the spec states it): a path-conflict error names the conflicting
\* path, the path of the existing File the row's chain runs into.
C7_NamesConflictingFile ==
  (JustLoaded /\ LoadFailedWith("conflict"))
    => Walk(root, Split(hist.load_exc.path, "/")).kind = "file"

\* C7 (amended): a path-conflict error names the "/"-joined chain of
\* directories the failing row asked for (every segment of a dir row, all but
\* the last of a file row), and a prefix of that chain is an existing File.
C7_NamesRequestedChain ==
  (JustLoaded /\ LoadFailedWith("conflict"))
    => \E k \in 1..Len(GivenRows) :
         LET chain == RowDirChain(GivenRows[k]) IN
         /\ hist.load_exc.path = Join(chain, "/")
         /\ \E j \in 1..Len(chain) : Walk(root, SubSeq(chain, 1, j)).kind = "file"

\* C7 witness: the file row a followed by the dir row a/b failed, the error naming a/b
C7_Witness ==
  /\ JustLoaded /\ LoadFailedWith("conflict")
  /\ hist.load_exc.path = <<"a", "/", "b">>
  /\ Walk(root, << <<"a">> >>).kind = "file"

\* C8 (as the spec states it): a row whose path exists as the other kind fails
\* the load, so after a load that succeeded every row's path still designates
\* a node of the row's kind: no row removed or replaced what another created.
C8_NoRowReplacesOtherKind ==
  (JustLoaded /\ hist.load = "ok")
    => \A k \in 1..Len(GivenRows) :
         Walk(root, RowSegments(GivenRows[k])).kind
           = (IF Lower(Strip(GivenRows[k].type)) = T_dir THEN "dir" ELSE "file")


----------------------------------------------------------------------------
(* Inputs of the model SpecScript: every script of at most MaxScriptLen lines *)

ScriptLineSet ==
  { <<>>, <<" ", " ", "#", " ", "c">>, <<"p", "w", "d">>, <<"c", "d", " ", "d">>, <<"l", "s", " ", "/", "x">>, <<"e", "x", "i", "t">>, <<"c", "d", " ", "'", "d">> }

ScriptFilesAll ==
  {MissingScript} \cup {ScriptFile(lines) : lines \in SeqsUpTo(ScriptLineSet, MaxScriptLen)}

\* the description the scripts run on: the directory d holding the file f
SmallFile == CsvFile(<< Row(<<"d", "/", "f">>, <<"f", "i", "l", "e">>, <<"b", "6", "4">>, <<"Y", "Q", "p", "i">>) >>)

\* what the user types while the script runs
ScriptSubmitTexts == { <<"e", "x", "i", "t">>, <<"c", "d", " ", "/", "x">>, <<"c", "d", " ", "d">> }

InitScript == InitWith({SmallFile}, ScriptFilesAll)

NextScript ==
  \/ LoadVfsIfAny
  \/ RunStartupScriptSafe
  \/ ProcessNextScriptLine
  \/ \E text \in ScriptSubmitTexts : HandleSubmit(text)
  \/ Destroy

SpecScript == InitScript /\ [][NextScript]_vars

----------------------------------------------------------------------------
(* Inputs of the model SpecRun, the script runner under the scheduling of *)
(* the event loop *)

RunLineSet == { <<" ", " ", "#", " ", "c">>, <<"p", "w", "d">>, <<"l", "s", " ", "/", "x">>, <<"e", "x", "i", "t">> }

RunFiles == {ScriptFile(lines) : lines \in SeqsUpTo(RunLineSet, MaxScriptLen)}

RunSubmitTexts == { <<"e", "x", "i", "t">> }

InitRun == InitWith({SmallFile}, RunFiles)

NextRun ==
  \/ LoadVfsIfAny
  \/ RunStartupScriptSafe
  \/ ProcessNextScriptLine
  \/ \E text \in RunSubmitTexts : HandleSubmit(text)
  \/ Destroy

\* Tk's main loop runs a callback registered with after(0, ...) as long as
\* the window lives: a scheduled step of the script is not postponed for ever
SpecRun == InitRun /\ [][NextRun]_vars /\ WF_vars(ProcessNextScriptLine)

----------------------------------------------------------------------------
(* Claims about the script runner, checked under SpecScript *)

\* the lines of the script file, as read
ScriptText == startup_script.lines

\* a line the runner is to skip: nothing but whitespace, or "#" as its first
\* character that is not whitespace
RefSkipped(line) ==
  LET solid == SelectSeq(line, LAMBDA c : c \notin Whitespace)
  IN  solid = <<>> \/ solid[1] = "#"

\* the numbers of the lines among the first n that are not to be skipped, in order
RefExecuted(n) == SelectSeq([k \in 1..n |-> k], LAMBDA k : ~RefSkipped(ScriptText[k]))

\* nothing of the script run moves: no line is taken, echoed or executed, no
\* message of the runner is printed
ScriptRunFrozen == hist' = hist /\ script_index' = script_index /\ last'.who \notin {"script", "script_end"}

\* C1: once a script line's command has failed, the runner has reported the
\* 1-indexed position of that line (skipped lines counted), has printed no
\* completion message, and no later line is ever taken, echoed or executed.
C1_StopOnError ==
  /\ [](hist.outcome = "failed" =>
          /\ hist.reported = script_index
          /\ hist.executed[Len(hist.executed)] = hist.reported
          /\ ~hist.completed_msg
          /\ "step" \notin pending)
  /\ [][hist.outcome = "failed" => ScriptRunFrozen]_vars

\* C1 witness: the run was stopped by a failing line that follows a skipped
\* line and is followed by another line
C1_Witness ==
  /\ hist.outcome = "failed"
  /\ hist.reported = 2 /\ hist.executed = <<2>>
  /\ Len(script_lines) = 3

\* C2: once a script line has executed exit, no later line is ever taken,
\* echoed or executed, and the runner prints neither the completion message
\* nor a stopped-on-error message.
C2_StopOnExit ==
  /\ [](hist.outcome = "terminated" =>
          /\ ~hist.completed_msg
          /\ hist.reported = 0
          /\ "step" \notin pending
          /\ parse_command_line(ScriptText[hist.executed[Len(hist.executed)]]).cmd = C_exit)
  /\ [][hist.outcome = "terminated" => ScriptRunFrozen]_vars

\* C2 witness: exit was executed from a script that has lines after it
C2_Witness ==
  /\ hist.outcome = "terminated"
  /\ script_index < Len(script_lines)
  /\ last.who = "script" /\ last.term

ScriptEnded == hist.outcome \in {"failed", "terminated", "completed"}

\* C3: a script run that has started ends, as long as the window lives to run
\* the scheduled steps, halted by a failing line, halted by a terminating
\* command or with all lines consumed; the completion message is printed if
\* and only if all lines were consumed with no failure and no termination.
C3_RunEnds ==
  /\ [](hist.completed_msg <=> hist.outcome = "completed")
  /\ [](hist.outcome = "completed" =>
          /\ script_index = Len(script_lines)
          /\ hist.reported = 0
          /\ hist.executed = RefExecuted(Len(ScriptText)))
  /\ [](hist.reported # 0 <=> hist.outcome = "failed")
  /\ (hist.outcome = "running" ~> (ScriptEnded \/ pc = "destroyed"))

\* C3 witness: a script of three lines ran to its end and the completion message was printed
C3_Witness ==
  /\ hist.outcome = "completed" /\ hist.completed_msg
  /\ Len(script_lines) = 3 /\ Len(hist.executed) >= 2

\* C4: lines are taken strictly in increasing order, one at a time; a line to
\* be skipped prints nothing, is not passed to the dispatcher and leaves the
\* next step scheduled; every other line taken is echoed first and passed to
\* the dispatcher exactly once.
C4_OrderAndSkip ==
  /\ [](hist.executed = RefExecuted(script_index) /\ hist.echoed = hist.executed)
  /\ [][script_index' # script_index =>
          /\ script_index' = script_index + 1
          /\ last'.who = "script"
          /\ last'.lineno = script_index'
          /\ last'.line = ScriptText[script_index']
          /\ IF RefSkipped(ScriptText[script_index'])
               THEN ~last'.ran /\ out' = <<>> /\ "step" \in pending'
               ELSE last'.ran /\ out'[1] = <<"prompt", ScriptText[script_index']>>]_vars

\* C4 witness: of the lines taken so far some were skipped and some executed
C4_Witness ==
  /\ Len(hist.executed) >= 1
  /\ Len(hist.executed) < script_index
  /\ script_index = 3

----------------------------------------------------------------------------
(* Inputs of the model SpecResolve: resolve applied to every working *)
(* directory of at most MaxCwdLen names and every path of at most MaxPathLen *)
(* characters, on several trees *)

PathChars == {"/", ".", "a", "b"}

PathSet == SeqsUpTo(PathChars, MaxPathLen)

\* the working directories: segments as resolve leaves them, whether or not
\* the tree holds them
CwdSet == SeqsUpTo({ <<"a">>, <<"b">>, <<"a", "b">> }, MaxCwdLen)

ResolveFiles ==
  { NotGiven,
    CsvFile(<< Row(<<"a", "/", "b">>, <<"d", "i", "r">>, <<>>, <<>>), Row(<<"b">>, <<"f", "i", "l", "e">>, <<>>, <<"x">>) >>),
    CsvFile(<< Row(<<"a", "/", ".", ".", "/", "b">>, <<"d", "i", "r">>, <<>>, <<>>), Row(<<"a", "/", "a">>, <<"f", "i", "l", "e">>, <<>>, <<>>) >>) }

InitResolve == InitWith(ResolveFiles, {NotGiven})

\* vfs.resolve(C, P) on the tree as loaded, for some C and P; resolve changes nothing, so one
\* application per behaviour shows all of them
ResolveProbe ==
  /\ pc = "mainloop"
  /\ probe = Nil
  /\ \E C \in CwdSet, P \in PathSet :
       probe' = [cwd |-> C, path |-> P, res |-> resolve(root, C, P)]
  /\ UNCHANGED <<pc, vfs_path, startup_script, root, raw_bytes, name, cwd_parts, script_lines,
                 script_index, pending, clock, submits, out, last, hist>>

NextResolve ==
  \/ LoadVfsIfAny
  \/ ResolveProbe

SpecResolve == InitResolve /\ [][NextResolve]_vars

----------------------------------------------------------------------------
(* Claims about resolve, checked under SpecResolve *)

Probed == probe # Nil

\* the segments S written as an absolute path
AbsolutePath(S) == <<"/">> \o Join(S, "/")

\* C10: when resolve(C, P) gives the segments S and a node or none, resolving
\* the "/"-joined S as an absolute path from the empty working directory
\* gives the same segments and the same node or the same absence.
C10_ResolveIdempotent ==
  Probed =>
    LET again == resolve(root, <<>>, AbsolutePath(probe.res.parts))
    IN  /\ again.parts = probe.res.parts
        /\ IsNone(again.node) = IsNone(probe.res.node)
        /\ again.node = probe.res.node

\* C10 witness: a relative path that climbs out of the working directory
\* and comes back to a directory of the tree
C10_Witness ==
  /\ Probed
  /\ probe.cwd = << <<"a">>, <<"b">> >>
  /\ probe.path = <<".", ".", "/", "b">>
  /\ probe.res.parts = << <<"a">>, <<"b">> >>
  /\ is_dir(probe.res.node)

\* two results of resolve are the same: same segments, same node or same absence
SameResolution(r1, r2) ==
  /\ r1.parts = r2.parts
  /\ IsNone(r1.node) = IsNone(r2.node)
  /\ r1.node = r2.node

RECURSIVE Ups(_)
\* k times "../"
Ups(k) == IF k = 0 THEN <<>> ELSE <<".", ".", "/">> \o Ups(k - 1)

\* C11: popping past the root is a no-op: a path resolved from the empty
\* working directory gives the same segments and the same node or absence
\* when any number of ".." segments are put before it, and the segments
\* hold no ".." at all.
C11_DotDotAbsorbedAtRoot ==
  (Probed /\ probe.cwd = <<>>) =>
    /\ \A k \in 1..MaxUp :
         SameResolution(resolve(root, <<>>, Ups(k) \o probe.path), probe.res)
    /\ \A j \in 1..Len(probe.res.parts) : probe.res.parts[j] # DotDot

\* C11 witness: "../a" resolved at the root designates the directory a, as
\* "../../a" and "a" do
C11_Witness ==
  /\ Probed /\ probe.cwd = <<>>
  /\ probe.path = <<".", ".", "/", "a">>
  /\ probe.res.parts = << <<"a">> >> /\ is_dir(probe.res.node)
  /\ SameResolution(resolve(root, <<>>, <<".", ".", "/", ".", ".", "/", "a">>), resolve(root, <<>>, <<"a">>))

\* the segments resolve is to return for the working directory C and the path
\* P: the stack after every "/"-separated piece of P, by position
RefCanonical(C, P) ==
  LET segs == Split(P, "/")
      stack[k \in 0..Len(segs)] ==
        IF k = 0 THEN (IF Len(P) > 0 /\ P[1] = "/" THEN <<>> ELSE C)
        ELSE IF segs[k] \in {<<>>, <<".">>} THEN stack[k - 1]
        ELSE IF segs[k] = <<".", ".">>
          THEN SubSeq(stack[k - 1], 1, Len(stack[k - 1]) - (IF stack[k - 1] = <<>> THEN 0 ELSE 1))
        ELSE stack[k - 1] \o <<segs[k]>>
  IN  stack[Len(segs)]

\* the nodes met walking the segments S from the root rt, by position: NoNode
\* from the first segment on that names no child of a directory
RefChain(rt, S) ==
  LET chain[k \in 0..Len(S)] ==
        IF k = 0 THEN rt
        ELSE IF chain[k - 1].kind # "dir" THEN NoNode
        ELSE IF S[k] \notin DOMAIN chain[k - 1].children THEN NoNode
        ELSE chain[k - 1].children[S[k]]
  IN  chain

\* C12: resolve(C, P) returns the canonical segments whether or not they
\* designate a node; it returns a node exactly when every segment names a
\* child of a directory, and then the node that walk reaches; it changes
\* neither the tree nor the working directory.
C12_ResolveIsReferenceWalk ==
  /\ [](Probed =>
         LET S == probe.res.parts
             chain == RefChain(root, S)
         IN  /\ S = RefCanonical(probe.cwd, probe.path)
             /\ IsNone(probe.res.node) = IsNone(chain[Len(S)])
             /\ probe.res.node = chain[Len(S)]
             /\ ~IsNone(probe.res.node) =>
                  \A k \in 1..Len(S) :
                    /\ chain[k - 1].kind = "dir"
                    /\ S[k] \in DOMAIN chain[k - 1].children)
  /\ [][probe' # probe => (root' = root /\ cwd_parts' = cwd_parts)]_vars

\* C12 witness: a path through the file b: no node, the segments returned in full
C12_Witness ==
  /\ Probed
  /\ probe.cwd = << <<"a">> >> /\ probe.path = <<"/", "b", "/", "a">>
  /\ HasChild(root, <<"b">>) /\ is_file(root.children[<<"b">>])
  /\ probe.res.parts = << <<"b">>, <<"a">> >>
  /\ IsNone(probe.res.node)


----------------------------------------------------------------------------
(* SpecApply: _chmod_apply_symbolic applied once to a mode, a clause and a
   directory flag.  Every 9-bit mode is drawn; the clause is a class string,
   an operator character and a permission string, among them an operator
   and permission strings the function rejects. *)

Modes == 0..ModeMask

ClassStrs == {<<>>, <<"u">>, <<"g">>, <<"o">>, <<"a">>, <<"u", "g">>, <<"g", "o">>, <<"u", "a">>}

OpChars == {"+", "-", "=", "*"}

PermStrs == {<<"r">>, <<"w">>, <<"x">>, <<"r", "w">>, <<"r", "x">>, <<"w", "x">>, <<"r", "w", "x">>, <<"X">>, <<"r", "X">>, <<>>, <<"s">>}

InitApply == InitWith({NotGiven}, {NotGiven})

ApplyProbe ==
  /\ pc = "mainloop"
  /\ probe = Nil
  /\ \E m \in Modes, K \in ClassStrs, op \in OpChars, perms \in PermStrs, isdir \in BOOLEAN :
       probe' = [mode |-> m, classes |-> K, op |-> op, perms |-> perms, isdir |-> isdir,
                 clause |-> K \o <<op>> \o perms,
                 res |-> chmod_apply_symbolic(m, K \o <<op>> \o perms, isdir)]
  /\ UNCHANGED <<pc, vfs_path, startup_script, root, raw_bytes, name, cwd_parts,
                 script_lines, script_index, pending, clock, submits, out, last, hist>>

NextApply ==
  \/ LoadVfsIfAny
  \/ ApplyProbe

SpecApply == InitApply /\ [][NextApply]_vars

----------------------------------------------------------------------------
(* Claims about _chmod_apply_symbolic, checked under SpecApply *)

\* the probe applied clause to mode m with the directory flag isdir
Applied(m, clause, isdir) ==
  Probed /\ probe.mode = m /\ probe.clause = clause /\ probe.isdir = isdir

\* the probe returned the mode v and raised nothing
Gave(v) == probe.res.exc = Nil /\ probe.res.mode = v

\* C14 as stated: apply(0o644, "+X", true) is 0o744 and
\* apply(0o644, "+X", false) is 0o644.
C14_PlusXOnDirectoryIs744 ==
  /\ Applied(420, <<"+", "X">>, TRUE) => Gave(484)
  /\ Applied(420, <<"+", "X">>, FALSE) => Gave(420)

\* C14, amended: "+X" has no class letters, so it selects all three classes:
\* apply(0o644, "+X", true) is 0o755 (a directory, X grants execute to owner,
\* group and others), and apply(0o644, "+X", false) is 0o644 (a file with no
\* execute bit, X grants nothing); only with the owner class named,
\* apply(0o644, "u+X", true) is 0o744.
C14_PlusXOnDirectoryIs755 ==
  /\ Applied(420, <<"+", "X">>, TRUE) => Gave(493)
  /\ Applied(420, <<"+", "X">>, FALSE) => Gave(420)
  /\ Applied(420, <<"u", "+", "X">>, TRUE) => Gave(484)

\* C14 witness: "+X" was applied to 0o644 for a directory and added the
\* three execute bits
C14_Witness == Applied(420, <<"+", "X">>, TRUE) /\ Gave(493)


\* C15: apply(0o644, "u+x", false) is 0o744, apply(0o777, "o-w", false) is
\* 0o775 and apply(0o000, "a=r", false) is 0o444.
C15_SymbolicReferenceValues ==
  /\ Applied(420, <<"u", "+", "x">>, FALSE) => Gave(484)
  /\ Applied(511, <<"o", "-", "w">>, FALSE) => Gave(509)
  /\ Applied(0, <<"a", "=", "r">>, FALSE) => Gave(292)

\* C15 witness: "o-w" was applied to 0o777 for a file and cleared one bit
C15_Witness == Applied(511, <<"o", "-", "w">>, FALSE) /\ Gave(509)

\* the letters of a text
Letters(text) == {text[k] : k \in 1..Len(text)}

\* the clause of the probe is a class set, one of "+", "-", "=", and a
\* non-empty permission set over r, w, x
PlainClause ==
  /\ Probed
  /\ probe.op \in {"+", "-", "="}
  /\ probe.perms # <<>>
  /\ Letters(probe.perms) \subseteq {"r", "w", "x"}

\* class cls is selected by the class string K (no letters: all classes)
RefSelected(K, cls) == K = <<>> \/ "a" \in Letters(K) \/ cls \in Letters(K)

\* the 3 bits of class cls in mode m, as a number 0..7
RefClassBits(m, cls) ==
  CASE cls = "u" -> (m \div 64) % 8 [] cls = "g" -> (m \div 8) % 8 [] cls = "o" -> m % 8

\* whether the 3-bit value v has the bit of permission p
RefHas(v, p) ==
  CASE p = "r" -> (v \div 4) % 2 = 1 [] p = "w" -> (v \div 2) % 2 = 1 [] p = "x" -> v % 2 = 1

\* C16: for every mode m, class set and permission set over r, w, x: in each
\* selected class "=" leaves exactly the permissions named, "+" adds them to
\* those the class had, "-" removes them from those it had; every class not
\* selected keeps its 3 bits; the result is within 0..0o777.
C16_ClassIsolation ==
  PlainClause =>
    /\ probe.res.exc = Nil
    /\ probe.res.mode \in 0..511
    /\ \A cls \in {"u", "g", "o"} :
         LET old == RefClassBits(probe.mode, cls)
             new == RefClassBits(probe.res.mode, cls)
         IN  IF RefSelected(probe.classes, cls)
               THEN \A p \in {"r", "w", "x"} :
                      LET named == p \in Letters(probe.perms) IN
                      RefHas(new, p) <=>
                        CASE probe.op = "=" -> named
                          [] probe.op = "+" -> named \/ RefHas(old, p)
                          [] probe.op = "-" -> ~named /\ RefHas(old, p)
             ELSE new = old

\* C16 witness: "g=r" applied to 0o777 sets the group bits to r alone and
\* keeps those of owner and others
C16_Witness ==
  /\ PlainClause
  /\ Applied(511, <<"g", "=", "r">>, FALSE)
  /\ Gave(487)


----------------------------------------------------------------------------
(* SpecFiles: the commands that change the tree, typed by the user on the
   tree of HomeFile *)

ChmodTexts ==
  { <<"c", "h", "m", "o", "d", " ", "6", "4", "4", " ", "/", "g">>,
    <<"c", "h", "m", "o", "d", " ", "6", "4", "4", " ", "d">>,
    <<"c", "h", "m", "o", "d", " ", "7", "7", "7", "7", " ", "/", "g">>,
    <<"c", "h", "m", "o", "d", " ", "1", "7", "5", "5", " ", "d", "/", "f">>,
    <<"c", "h", "m", "o", "d", " ", "0", "0", "0", " ", "/", "d", "/", "e">>,
    <<"c", "h", "m", "o", "d", " ", "7", "0", "0", " ", "/", "d">>,
    <<"c", "h", "m", "o", "d", " ", "-", "R", " ", "7", "0", "0", " ", "/", "d">>,
    <<"c", "h", "m", "o", "d", " ", "-", "R", " ", "0", "0", "7", "0", " ", "/">>,
    <<"c", "h", "m", "o", "d", " ", "-", "R", " ", "6", "0", "0", " ", "/", "g">>,
    <<"c", "h", "m", "o", "d", " ", "u", "+", "x", ",", "g", "+", "X", " ", "/", "g">>,
    <<"c", "h", "m", "o", "d", " ", "g", "+", "X", ",", "u", "+", "x", " ", "/", "g">>,
    <<"c", "h", "m", "o", "d", " ", "-", "R", " ", "a", "+", "X", " ", "/", "d">>,
    <<"c", "h", "m", "o", "d", " ", "-", "R", " ", "a", "=", "X", " ", "/", "d">>,
    <<"c", "h", "m", "o", "d", " ", "a", "+", "X", " ", "/", "d">>,
    <<"c", "h", "m", "o", "d", " ", "-", "R", " ", "g", "o", "-", "r", "x", " ", "/", "d">>,
    <<"c", "h", "m", "o", "d", " ", "-", "R", " ", "o", "=", "r", "X", ",", "u", "-", "w", " ", "/">>,
    <<"c", "h", "m", "o", "d", " ", "+", "X", " ", "d", "/", "f">>,
    <<"c", "h", "m", "o", "d", " ", "'", " ", "u", "+", "x", " ", ",", " ", "g", "+", "X", " ", ",", "'", " ", "d", "/", "f">>,
    <<"c", "h", "m", "o", "d", " ", "u", "+", "x", ",", "g", "o", "=", " ", "/", "g">>,
    <<"c", "h", "m", "o", "d", " ", "-", "R", " ", "u", "-", "r", ",", "g", "+", "s", " ", "/", "d">>,
    <<"c", "h", "m", "o", "d", " ", "6", "4", "4", " ", "/", "x">>,
    <<"c", "h", "m", "o", "d", " ", "6", "4", " ", "/", "g">>,
    <<"c", "h", "m", "o", "d", " ", "8", "8", "8", " ", "/", "g">>,
    <<"c", "h", "m", "o", "d", " ", "6", "4", "4">>,
    <<"c", "h", "m", "o", "d", " ", ",", " ", "/", "g">>,
    <<"c", "h", "m", "o", "d", " ", "-", "R", " ", "6", "4", "4">>,
    <<"c", "h", "m", "o", "d", " ", "6", "4", "4", " ", "d", " ", "g">>,
    <<"c", "h", "m", "o", "d">> }

TouchTexts ==
  { <<"t", "o", "u", "c", "h", " ", "n">>,
    <<"t", "o", "u", "c", "h", " ", "d", "/", "n">>,
    <<"t", "o", "u", "c", "h", " ", "/", "d", "/", "e", "/", ".", ".", "/", "n">>,
    <<"t", "o", "u", "c", "h", " ", "d">>,
    <<"t", "o", "u", "c", "h", " ", "d", "/", "f">>,
    <<"t", "o", "u", "c", "h", " ", "/">>,
    <<"t", "o", "u", "c", "h", " ", ".", ".">>,
    <<"t", "o", "u", "c", "h", " ", "d", "/", "f", "/", ".", ".">>,
    <<"t", "o", "u", "c", "h", " ", "g", "/", "n">>,
    <<"t", "o", "u", "c", "h", " ", "x", "/", "n">>,
    <<"t", "o", "u", "c", "h", " ", "d", "/", "f", "/", "n", "/", "m">>,
    <<"t", "o", "u", "c", "h", " ", "'", "'">>,
    <<"t", "o", "u", "c", "h", " ", "d", "/">>,
    <<"t", "o", "u", "c", "h">>,
    <<"t", "o", "u", "c", "h", " ", "n", " ", "m">>,
    <<"c", "d", " ", "d">>,
    <<"t", "o", "u", "c", "h", " ", ".", ".", "/", "g">> }

InitFiles == InitWith({HomeFile}, {NotGiven})

NextFiles ==
  \/ LoadVfsIfAny
  \/ \E text \in ChmodTexts \cup TouchTexts : HandleSubmit(text)

SpecFiles == InitFiles /\ [][NextFiles]_vars

----------------------------------------------------------------------------
(* Claims about chmod, checked under SpecFiles *)

\* pcl is chmod with a mode and a path, after "-R" or not
ChmodCall(pcl) ==
  /\ ~pcl.perr
  /\ pcl.cmd = C_chmod
  /\ Len(pcl.args) >= 1
  /\ Len(pcl.args) = (IF pcl.args[1] = <<"-", "R">> THEN 3 ELSE 2)

ChmodRecursive(pcl) == pcl.args[1] = <<"-", "R">>

ChmodModeSpec(pcl) == pcl.args[IF ChmodRecursive(pcl) THEN 2 ELSE 1]

ChmodTarget(pcl) == pcl.args[IF ChmodRecursive(pcl) THEN 3 ELSE 2]

\* the last step ran the chmod call with this mode and this path
RanChmod(recursive, mode_spec, target) ==
  /\ last.ran
  /\ ChmodCall(LastCommand)
  /\ ChmodRecursive(LastCommand) = recursive
  /\ ChmodModeSpec(LastCommand) = mode_spec
  /\ ChmodTarget(LastCommand) = target

\* text is 3 or 4 octal digits
RefOctalText(text) ==
  Len(text) \in {3, 4} /\ \A k \in 1..Len(text) : \E d \in 0..7 : ToString(d) = text[k]

\* the number the octal digits of text write
RefOctalValue(text) ==
  LET v[k \in 0..Len(text)] ==
        IF k = 0 THEN 0 ELSE 8 * v[k - 1] + (CHOOSE d \in 0..7 : ToString(d) = text[k])
  IN  v[Len(text)]

\* v in 0..0o7777 written with four octal digits
RefFourOctal(v) ==
  <<ToString((v \div 512) % 8), ToString((v \div 64) % 8), ToString((v \div 8) % 8), ToString(v % 8)>>

\* C13: a chmod whose mode is 3 or 4 octal digits, on a path that resolves,
\* succeeds and leaves the resolved node with the value of the digits modulo
\* 0o1000, whatever its mode was; ls -l then shows that value as four octal
\* digits, "0644" for the mode "644".
C13_NumericReplacesMode ==
  [][ submits' = submits + 1 =>
        \A pcl \in {parse_command_line(last'.line)} :
          (last'.ran /\ ChmodCall(pcl) /\ RefOctalText(ChmodModeSpec(pcl))) =>
            \A r \in {resolve(root, cwd_parts, ChmodTarget(pcl))} :
              ~IsNone(r.node) =>
                \A after \in {NodeAt(root', r.parts)}, v \in {RefOctalValue(ChmodModeSpec(pcl)) % 512} :
                  /\ last'.ok
                  /\ after.mode = v
                  /\ Tail(fmt_mode(after)) = RefFourOctal(v)
                  /\ ChmodModeSpec(pcl) = <<"6", "4", "4">> => Tail(fmt_mode(after)) = <<"0", "6", "4", "4">> ]_vars

\* C13 witness: "chmod 644 d" as the first command: the directory, loaded
\* with mode 0o755, is shown as d0644
C13_Witness ==
  /\ submits = 1
  /\ RanChmod(FALSE, <<"6", "4", "4">>, <<"d">>) /\ last.ok
  /\ fmt_mode(root.children[<<"d">>]) = <<"d", "0", "6", "4", "4">>


\* the place of the operator of a clause: its first character among + - =
\* (0: none)
RefOpAt(clause) ==
  IF \E i \in 1..Len(clause) : clause[i] \in {"+", "-", "="}
    THEN CHOOSE i \in 1..Len(clause) :
           /\ clause[i] \in {"+", "-", "="}
           /\ \A j \in 1..(i - 1) : clause[j] \notin {"+", "-", "="}
  ELSE 0

\* clause is class letters, an operator and at least one permission letter
RefClauseOk(clause) ==
  LET i == RefOpAt(clause) IN
  /\ i > 0 /\ i < Len(clause)
  /\ Letters(SubSeq(clause, 1, i - 1)) \subseteq {"u", "g", "o", "a"}
  /\ Letters(SubSeq(clause, i + 1, Len(clause))) \subseteq {"r", "w", "x", "X"}

\* the mode one clause gives from mode m: X stands for x when the target is
\* a directory or m has an execute bit in some class
RefApply(m, clause, isdir) ==
  LET i == RefOpAt(clause)
      K == SubSeq(clause, 1, i - 1)
      letters == Letters(SubSeq(clause, i + 1, Len(clause)))
      x_given == isdir \/ \E cls \in {"u", "g", "o"} : RefHas(RefClassBits(m, cls), "x")
      named(p) == p \in letters \/ (p = "x" /\ "X" \in letters /\ x_given)
      has(cls, p) ==
        IF RefSelected(K, cls)
          THEN CASE clause[i] = "=" -> named(p)
                 [] clause[i] = "+" -> named(p) \/ RefHas(RefClassBits(m, cls), p)
                 [] clause[i] = "-" -> ~named(p) /\ RefHas(RefClassBits(m, cls), p)
        ELSE RefHas(RefClassBits(m, cls), p)
      bits(cls) == (IF has(cls, "r") THEN 4 ELSE 0) + (IF has(cls, "w") THEN 2 ELSE 0)
                     + (IF has(cls, "x") THEN 1 ELSE 0)
  IN  64 * bits("u") + 8 * bits("g") + bits("o")

\* the clauses applied from left to right, each to the result of the one before
RefApplyAll(m, clauses, isdir) ==
  LET f[k \in 0..Len(clauses)] ==
        IF k = 0 THEN m ELSE RefApply(f[k - 1], clauses[k], isdir)
  IN  f[Len(clauses)]

\* the clauses of a symbolic mode: its non-blank pieces between commas
RefClauses(mode_spec) == NonEmptyStripped(Split(mode_spec, ","))

\* C17: a chmod with a symbolic mode of well-formed clauses, on a path that
\* resolves, succeeds and leaves the resolved node with the mode obtained by
\* applying the clauses from left to right, each to the result of the one
\* before, X counting as x in a clause when the node is a directory or the
\* mode that clause starts from has an execute bit.  On a file of mode 0o644
\* "u+x,g+X" gives 0o754 and "g+X,u+x" gives 0o744.
C17_ClausesLeftToRight ==
  [][ submits' = submits + 1 =>
        \A pcl \in {parse_command_line(last'.line)} :
          (last'.ran /\ ChmodCall(pcl) /\ ~RefOctalText(ChmodModeSpec(pcl))) =>
            \A r \in {resolve(root, cwd_parts, ChmodTarget(pcl))},
               clauses \in {RefClauses(ChmodModeSpec(pcl))} :
              (~IsNone(r.node) /\ clauses # <<>> /\ \A k \in 1..Len(clauses) : RefClauseOk(clauses[k])) =>
                \A after \in {NodeAt(root', r.parts)} :
                  /\ last'.ok
                  /\ after.mode = RefApplyAll(r.node.mode, clauses, is_dir(r.node))
                  /\ (is_file(r.node) /\ r.node.mode = 420) =>
                       /\ ChmodModeSpec(pcl) = <<"u", "+", "x", ",", "g", "+", "X">> => after.mode = 492
                       /\ ChmodModeSpec(pcl) = <<"g", "+", "X", ",", "u", "+", "x">> => after.mode = 484 ]_vars

\* C17 witness: "chmod u+x,g+X /g" as the first command: the group gets
\* execute because the first clause gave it to the owner
C17_Witness ==
  /\ submits = 1
  /\ RanChmod(FALSE, <<"u", "+", "x", ",", "g", "+", "X">>, <<"/", "g">>) /\ last.ok
  /\ root.children[<<"g">>].mode = 492


RECURSIVE RefPaths(_)
\* the paths, from node, of node and of every node below it
RefPaths(node) ==
  {<<>>} \cup UNION { {<<c>> \o q : q \in RefPaths(node.children[c])} : c \in DOMAIN node.children }

\* S is a prefix of Q
RefPrefix(S, Q) == Len(S) <= Len(Q) /\ SubSeq(Q, 1, Len(S)) = S

\* the mode a well-formed mode_spec gives a node, from that node alone
RefNewMode(mode_spec, node) ==
  IF RefOctalText(mode_spec) THEN RefOctalValue(mode_spec) % 512
  ELSE RefApplyAll(node.mode, RefClauses(mode_spec), is_dir(node))

\* mode_spec is 3 or 4 octal digits or a list of well-formed clauses
RefModeSpecOk(mode_spec) ==
  \/ RefOctalText(mode_spec)
  \/ /\ RefClauses(mode_spec) # <<>>
     /\ \A k \in 1..Len(RefClauses(mode_spec)) : RefClauseOk(RefClauses(mode_spec)[k])

\* C18: a chmod with a well-formed mode on a path that resolves keeps the
\* nodes of the tree, and gives a node the mode the spec yields from that
\* node's own mode and kind if the node is the resolved one or, with -R, lies
\* below it; every other node keeps its mode.  With /d containing /d/f,
\* "chmod -R 700 /d" leaves both at 0o700 and "chmod -R a+X /d" with /d/f at
\* 0o644 gives /d the three execute bits and leaves /d/f at 0o644.
C18_RecursiveChmod ==
  [][ submits' = submits + 1 =>
        \A pcl \in {parse_command_line(last'.line)} :
          (last'.ran /\ ChmodCall(pcl) /\ RefModeSpecOk(ChmodModeSpec(pcl))) =>
            \A r \in {resolve(root, cwd_parts, ChmodTarget(pcl))} :
              ~IsNone(r.node) =>
                /\ last'.ok
                /\ RefPaths(root') = RefPaths(root)
                /\ \A Q \in RefPaths(root) :
                     \A old \in {NodeAt(root, Q)}, new \in {NodeAt(root', Q)} :
                       /\ new.kind = old.kind /\ new.content = old.content /\ new.mtime = old.mtime
                       /\ new.mode =
                            IF Q = r.parts \/ (ChmodRecursive(pcl) /\ RefPrefix(r.parts, Q))
                              THEN RefNewMode(ChmodModeSpec(pcl), old)
                            ELSE old.mode
                /\ (ChmodRecursive(pcl) /\ r.parts = << <<"d">> >>) =>
                     /\ ChmodModeSpec(pcl) = <<"7", "0", "0">> =>
                          /\ NodeAt(root', << <<"d">> >>).mode = 448
                          /\ NodeAt(root', << <<"d">>, <<"f">> >>).mode = 448
                     /\ (ChmodModeSpec(pcl) = <<"a", "+", "X">> /\ NodeAt(root, << <<"d">>, <<"f">> >>).mode = 420) =>
                          /\ NodeAt(root', << <<"d">> >>).mode = RefApplyAll(NodeAt(root, << <<"d">> >>).mode, << <<"a", "+", "x">> >>, TRUE)
                          /\ NodeAt(root', << <<"d">>, <<"f">> >>).mode = 420 ]_vars

\* C18 witness: "chmod -R a=X /d" as the first command: the directories /d
\* and /d/e have the execute bits alone, the file /d/f has no bit, and /g,
\* outside /d, has its mode 0o644
C18_Witness ==
  /\ submits = 1
  /\ RanChmod(TRUE, <<"a", "=", "X">>, <<"/", "d">>) /\ last.ok
  /\ NodeAt(root, << <<"d">> >>).mode = 73
  /\ NodeAt(root, << <<"d">>, <<"e">> >>).mode = 73
  /\ NodeAt(root, << <<"d">>, <<"f">> >>).mode = 0
  /\ NodeAt(root, << <<"g">> >>).mode = 420


----------------------------------------------------------------------------
(* Claims about touch, checked under SpecFiles *)

\* the pieces of the path P between "/" that are neither empty nor "."
RefPieces(P) == SelectSeq(Split(P, "/"), LAMBDA s : s \notin {<<>>, <<".">>})

\* the parent of P: what its pieces but the last designate from the working
\* directory C, or from the root when P is absolute
RefParent(rt, C, P) ==
  LET lead == IF Len(P) > 0 /\ P[1] = "/" THEN <<"/">> ELSE <<>>
      S == RefCanonical(C, lead \o Join(ButLast(RefPieces(P)), "/"))
  IN  RefChain(rt, S)[Len(S)]

\* what P designates from the working directory C
RefTarget(rt, C, P) ==
  LET S == RefCanonical(C, P) IN RefChain(rt, S)[Len(S)]

\* a node without its children
RefOwn(node) == [kind |-> node.kind, content |-> node.content, mode |-> node.mode, mtime |-> node.mtime]

\* a node without its children and its time
RefOwnButTime(node) == [kind |-> node.kind, content |-> node.content, mode |-> node.mode]

\* C19: touch P with P designating no node and the parent of P an existing
\* directory succeeds and adds, at the canonical segments of P, a file with
\* empty content and mode 0o644, which resolve(cwd, P) then returns, every
\* other node staying as it was; touch P with P designating a node and the
\* parent of P an existing directory succeeds and changes nothing but the
\* time of that node (so does a touch repeated after a creation); and a
\* touch of an existing node, successful or not, changes the kind, content,
\* mode and children of no node.
C19_TouchCreatesOnce ==
  [][ submits' = submits + 1 =>
        \A pcl \in {parse_command_line(last'.line)} :
          (last'.ran /\ ~pcl.perr /\ pcl.cmd = C_touch /\ Len(pcl.args) = 1) =>
            \A S \in {RefCanonical(cwd_parts, pcl.args[1])},
               target \in {RefTarget(root, cwd_parts, pcl.args[1])},
               parent \in {IF RefPieces(pcl.args[1]) = <<>> THEN NoNode
                           ELSE RefParent(root, cwd_parts, pcl.args[1])} :
              /\ (IsNone(target) /\ is_dir(parent)) =>
                   /\ last'.ok
                   /\ RefPaths(root') = RefPaths(root) \cup {S}
                   /\ \A Q \in RefPaths(root) : RefOwn(NodeAt(root', Q)) = RefOwn(NodeAt(root, Q))
                   /\ RefOwnButTime(NodeAt(root', S)) = [kind |-> "file", content |-> <<>>, mode |-> 420]
                   /\ NodeAt(root', S).mtime = clock'
                   /\ resolve(root', cwd_parts', pcl.args[1]).node = NodeAt(root', S)
              /\ (~IsNone(target) /\ is_dir(parent)) =>
                   /\ last'.ok
                   /\ RefPaths(root') = RefPaths(root)
                   /\ NodeAt(root', S).mtime = clock'
                   /\ \A Q \in RefPaths(root) \ {S} : RefOwn(NodeAt(root', Q)) = RefOwn(NodeAt(root, Q))
              /\ ~IsNone(target) =>
                   /\ RefPaths(root') = RefPaths(root)
                   /\ \A Q \in RefPaths(root) :
                        RefOwnButTime(NodeAt(root', Q)) = RefOwnButTime(NodeAt(root, Q)) ]_vars

\* C19 witness: "touch n" typed twice at the root: the second one found the
\* file the first one made, still empty and with mode 0o644, and gave it a
\* later time
C19_Witness ==
  /\ submits = 2
  /\ last.ran /\ last.ok /\ last.line = <<"t", "o", "u", "c", "h", " ", "n">>
  /\ cwd_parts = <<>>
  /\ out[2] = <<"touch: mtime updated", <<"n">>>>
  /\ HasChild(root, <<"n">>)
  /\ root.children[<<"n">>] = FileNode(<<>>, 420, 2)

\* C20: touch fails and leaves the tree as it was when it is given no or
\* several arguments, when its path has no piece other than "" and ".", and
\* when the parent of its path is no node or is a file.
C20_TouchNeedsParentDirectory ==
  [][ submits' = submits + 1 =>
        \A pcl \in {parse_command_line(last'.line)} :
          (/\ last'.ran /\ ~pcl.perr /\ pcl.cmd = C_touch
           /\ \/ Len(pcl.args) # 1
              \/ RefPieces(pcl.args[1]) = <<>>
              \/ ~is_dir(RefParent(root, cwd_parts, pcl.args[1]))) =>
            /\ ~last'.ok
            /\ root' = root ]_vars

\* C20 witness: "touch g/n" as the first command, /g being a file: it failed
\* and /g is the file that was loaded
C20_Witness ==
  /\ submits = 1
  /\ last.ran /\ ~last.ok /\ last.line = <<"t", "o", "u", "c", "h", " ", "g", "/", "n">>
  /\ is_file(NodeAt(root, << <<"g">> >>))
  /\ DOMAIN NodeAt(root, << <<"g">> >>).children = {}
  /\ RefPaths(root) = {<<>>, << <<"d">> >>, << <<"d">>, <<"e">> >>, << <<"d">>, <<"f">> >>, << <<"g">> >>}


----------------------------------------------------------------------------
(* Claims about the tree across commands, checked under Spec *)

\* the commands that only read the tree
ReadingCommands == {C_ls, C_cd, C_pwd, C_date, C_tac, C_vfs_info, C_exit}

\* C21: from the built tree on, every step keeps every node at its path with
\* its kind and content; a step that adds a node or changes a time is a
\* successful touch, a step that changes a mode is a successful chmod, and a
\* step of ls, cd, pwd, date, tac, vfs-info or exit, like a step that runs
\* no command, leaves the tree as it was.
C21_NodesPersist ==
  [][ pc = "mainloop" =>
        \A pcl \in {parse_command_line(last'.line)} :
          /\ RefPaths(root) \subseteq RefPaths(root')
          /\ \A Q \in RefPaths(root) :
               \A old \in {NodeAt(root, Q)}, new \in {NodeAt(root', Q)} :
                 /\ new.kind = old.kind /\ new.content = old.content
                 /\ new.mtime # old.mtime =>
                      last'.ran /\ last'.ok /\ ~pcl.perr /\ pcl.cmd = C_touch
                 /\ new.mode # old.mode =>
                      last'.ran /\ last'.ok /\ ~pcl.perr /\ pcl.cmd = C_chmod
          /\ RefPaths(root') # RefPaths(root) =>
               last'.ran /\ last'.ok /\ ~pcl.perr /\ pcl.cmd = C_touch
          /\ (~last'.ran \/ pcl.perr \/ pcl.cmd \in ReadingCommands) => root' = root ]_vars

\* C21 witness: "touch n" typed in /d has added /d/n, and the nodes
\* loaded are all there, /d/f with its two lines
C21_Witness ==
  /\ last.ran /\ last.ok /\ last.who = "submit" /\ last.line = <<"t", "o", "u", "c", "h", " ", "n">>
  /\ cwd_parts = << <<"d">> >>
  /\ RefPaths(root) = {<<>>, << <<"d">> >>, << <<"d">>, <<"e">> >>, << <<"d">>, <<"f">> >>, << <<"g">> >>,
                       << <<"d">>, <<"n">> >>}
  /\ NodeAt(root, << <<"d">>, <<"f">> >>).content = <<97, 10, 98>>


----------------------------------------------------------------------------
(* SpecExec: exec applied once to a command line, in a working directory of
   a loaded tree.  The tree is /.r/, /d/.h, /d/B, /d/a/, /d/b, /e/ and the
   file /f, whose content is every text of at most 3 characters among "a",
   "b" and the line feed, some longer texts, and bytes that are not UTF-8 *)

\* the description of the tree with /f holding the bytes that b64 encodes
ExecFile(b64) ==
  CsvFile(<< Row(<<".", "r">>, <<"d", "i", "r">>, <<>>, <<>>),
             Row(<<"d", "/", ".", "h">>, <<"f", "i", "l", "e">>, <<>>, <<"h">>),
             Row(<<"d", "/", "B">>, <<"f", "i", "l", "e">>, <<>>, <<"B">>),
             Row(<<"d", "/", "a">>, <<"d", "i", "r">>, <<>>, <<>>),
             Row(<<"d", "/", "b">>, <<"f", "i", "l", "e">>, <<"t", "e", "x", "t">>, <<"b">>),
             Row(<<"e">>, <<"d", "i", "r">>, <<>>, <<>>),
             Row(<<"f">>, <<"f", "i", "l", "e">>, <<"b", "6", "4">>, b64) >>)

ExecFiles ==
  { ExecFile(b) : b \in {
    <<>>, <<"Y", "Q", "=", "=">>, <<"Y", "g", "=", "=">>, <<"C", "g", "=", "=">>, <<"Y", "W", "E", "=">>, <<"Y", "W", "I", "=">>,
    <<"Y", "Q", "o", "=">>, <<"Y", "m", "E", "=">>, <<"Y", "m", "I", "=">>, <<"Y", "g", "o", "=">>, <<"C", "m", "E", "=">>, <<"C", "m", "I", "=">>,
    <<"C", "g", "o", "=">>, <<"Y", "W", "F", "h">>, <<"Y", "W", "F", "i">>, <<"Y", "W", "E", "K">>, <<"Y", "W", "J", "h">>, <<"Y", "W", "J", "i">>,
    <<"Y", "W", "I", "K">>, <<"Y", "Q", "p", "h">>, <<"Y", "Q", "p", "i">>, <<"Y", "Q", "o", "K">>, <<"Y", "m", "F", "h">>, <<"Y", "m", "F", "i">>,
    <<"Y", "m", "E", "K">>, <<"Y", "m", "J", "h">>, <<"Y", "m", "J", "i">>, <<"Y", "m", "I", "K">>, <<"Y", "g", "p", "h">>, <<"Y", "g", "p", "i">>,
    <<"Y", "g", "o", "K">>, <<"C", "m", "F", "h">>, <<"C", "m", "F", "i">>, <<"C", "m", "E", "K">>, <<"C", "m", "J", "h">>, <<"C", "m", "J", "i">>,
    <<"C", "m", "I", "K">>, <<"C", "g", "p", "h">>, <<"C", "g", "p", "i">>, <<"C", "g", "o", "K">>, <<"Y", "Q", "p", "i", "C", "g", "=", "=">>, <<"C", "g", "o", "K", "C", "g", "=", "=">>,
    <<"Y", "Q", "0", "K", "Y", "g", "0", "K">>, <<"Y", "W", "I", "K", "C", "m", "I", "K">>, <<"/", "w", "=", "=">>, <<"Y", "Q", "r", "+", "C", "g", "=", "=">> } }

ExecLines ==
  {
    <<"l", "s">>, <<"l", "s", " ", "-", "a">>, <<"l", "s", " ", "-", "l">>, <<"l", "s", " ", "-", "l", "a">>, <<"l", "s", " ", "-", "a", " ", "-", "l", " ", "d">>,
    <<"l", "s", " ", "d">>, <<"l", "s", " ", "-", "a", " ", "d">>, <<"l", "s", " ", "-", "a", "l", " ", "d", "/", "a">>, <<"l", "s", " ", "-", "a", " ", "/">>, <<"l", "s", " ", "e">>,
    <<"l", "s", " ", "-", "a", " ", "e">>, <<"l", "s", " ", "-", "l", " ", "e">>, <<"l", "s", " ", "f">>, <<"l", "s", " ", "-", "a", " ", "f">>, <<"l", "s", " ", "-", "l", " ", "d", "/", "b">>,
    <<"l", "s", " ", "x">>, <<"l", "s", " ", "-", "a", " ", "x", "/", "y">>, <<"l", "s", " ", "-", "l", " ", "f", "/", "x">>, <<"l", "s", " ", "-", "x">>, <<"l", "s", " ", "-", "a", "x", " ", "d">>,
    <<"l", "s", " ", "-">>, <<"l", "s", " ", "-", "a", " ", ".", "r">>, <<"l", "s", " ", ".", "r">>, <<"l", "s", " ", "d", " ", "e">>, <<"l", "s", " ", "-", "a", " ", ".", ".">>,
    <<"l", "s", " ", "-", "-", " ", "d">>, <<"t", "a", "c", " ", "f">>, <<"t", "a", "c", " ", "/", "f">>, <<"t", "a", "c", " ", "d">>, <<"t", "a", "c", " ", "x">>,
    <<"t", "a", "c">>, <<"t", "a", "c", " ", "f", " ", "f">>, <<"t", "a", "c", " ", "d", "/", "b">>, <<"t", "a", "c", " ", ".", ".", "/", "f">>, <<"t", "a", "c", " ", "f", "/">>,
    <<"e", "x", "i", "t">>, <<"e", "x", "i", "t", " ", "n", "o", "w">>, <<"e", "x", "i", "t", " ", "1", " ", "2">>, <<"f", "o", "o">>, <<"f", "o", "o", " ", "e", "x", "i", "t">>,
    <<"E", "x", "i", "t">>, <<"'", "'">>, <<"'", "'", " ", "x">>, <<"\"", "\"", " ", "e", "x", "i", "t">>, <<"l", "s", " ", "'", "d">>,
    <<"e", "x", "i", "t", " ", "\"">>, <<"e", "x", "i", "t", "\\">>, <<"e", "x", "i", "'", "t", "'">>, <<"p", "w", "d">>, <<"p", "w", "d", " ", "x">>,
    <<"d", "a", "t", "e">>, <<"v", "f", "s", "-", "i", "n", "f", "o">>, <<"c", "d", " ", "d">>, <<"c", "d">>, <<"t", "o", "u", "c", "h", " ", "n">>,
    <<"c", "h", "m", "o", "d", " ", "7", "0", "0", " ", "d">>, <<>>, <<" ">>, <<"\t", " ">>, <<" ", "e", "x", "i", "t", " ">>,
    <<"#", "c">> }

ExecCwds == {<<>>, << <<"d">> >>, << <<"d">>, <<"a">> >>}

InitExec == InitWith(ExecFiles, {NotGiven})

ExecProbe ==
  /\ pc = "mainloop"
  /\ probe = Nil
  /\ \E line \in ExecLines, cwd \in ExecCwds :
       probe' = [line |-> line, cwd |-> cwd,
                 res |-> exec(line, root, cwd, clock, name, raw_bytes)]
  /\ UNCHANGED <<pc, vfs_path, startup_script, root, raw_bytes, name, cwd_parts,
                 script_lines, script_index, pending, clock, submits, out, last, hist>>

NextExec ==
  \/ LoadVfsIfAny
  \/ ExecProbe

SpecExec == InitExec /\ [][NextExec]_vars


----------------------------------------------------------------------------
(* Claims about exec, checked under SpecExec *)

\* the command names exec routes
KnownCommands == ReadingCommands \cup {C_touch, C_chmod}

\* the probe left the tree and the working directory as they were
ProbeChangedNothing == probe.res.root = root /\ probe.res.cwd = probe.cwd

\* C22: exec returns terminate exactly for a line whose first token is exit,
\* and then success; for a first token that is no command name it returns
\* failure, no terminate, and changes nothing; for a line without tokens it
\* returns success, no terminate, and prints nothing; for a line with
\* unbalanced quoting it returns failure, no terminate, and changes nothing.
C22_OutcomeFlags ==
  Probed =>
    \A sp \in {shlex_split(probe.line)} :
      IF sp.err
        THEN ~probe.res.ok /\ ~probe.res.term /\ ProbeChangedNothing
      ELSE
        /\ probe.res.term <=> (Len(sp.tokens) > 0 /\ sp.tokens[1] = C_exit)
        /\ probe.res.term => probe.res.ok
        /\ Len(sp.tokens) = 0 =>
             probe.res.ok /\ ~probe.res.term /\ probe.res.out = <<>> /\ ProbeChangedNothing
        /\ (Len(sp.tokens) > 0 /\ sp.tokens[1] \notin KnownCommands) =>
             ~probe.res.ok /\ ~probe.res.term /\ ProbeChangedNothing


\* an argument that ls reads as options
RefIsOption(arg) == Len(arg) > 1 /\ arg[1] = "-"

\* the number of leading option arguments
RefOptionCount(args) ==
  CHOOSE n \in 0..Len(args) :
    /\ \A k \in 1..n : RefIsOption(args[k])
    /\ n = Len(args) \/ ~RefIsOption(args[n + 1])

\* some option argument among the first n holds the letter
RefHasFlag(args, n, letter) == \E k \in 1..n : letter \in Letters(Tail(args[k]))

\* a comes before b in lexicographic order of code points
RefBefore(a, b) ==
  \E k \in 1..Len(b) :
    /\ k <= Len(a) + 1
    /\ SubSeq(a, 1, k - 1) = SubSeq(b, 1, k - 1)
    /\ k = Len(a) + 1 \/ Ord(a[k]) < Ord(b[k])

\* the names an ls output shows, in order: one per line after the mode in a
\* long listing, all on one line separated by two spaces otherwise
RefListedNames(lines, long) ==
  IF long THEN [k \in 1..Len(lines) |-> SubSeq(lines[k][2], 7, Len(lines[k][2]))]
  ELSE IF Len(lines) = 0 THEN <<>>
  ELSE SelectSeq(Split(lines[1][2], " "), LAMBDA s : s # <<>>)

\* the modes a long ls output shows, in order
RefListedModes(lines) == [k \in 1..Len(lines) |-> SubSeq(lines[k][2], 1, 5)]

\* C23: ls with options of letters l and a, on a target that is a directory,
\* succeeds and lists, after "." and ".." when -a is given, exactly the
\* names of the children, without those that start with "." unless -a is
\* given, in ascending lexicographic order; a long listing shows for "." the
\* mode of the directory and for ".." that of its parent, or its own at the
\* root.  On a target that designates nothing ls fails and lists nothing.
C23_LsListing ==
  Probed =>
    \A pcl \in {parse_command_line(probe.line)} :
      (~pcl.perr /\ pcl.cmd = C_ls) =>
        \A n \in {RefOptionCount(pcl.args)} :
          (\A k \in 1..n : Letters(Tail(pcl.args[k])) \subseteq {"l", "a"}) =>
            \A all \in {RefHasFlag(pcl.args, n, "a")}, long \in {RefHasFlag(pcl.args, n, "l")},
               S \in {RefCanonical(probe.cwd, IF n < Len(pcl.args) THEN pcl.args[n + 1] ELSE <<".">>)} :
              \A chain \in {RefChain(root, S)} :
                IF IsNone(chain[Len(S)])
                  THEN /\ ~probe.res.ok
                       /\ \A k \in 1..Len(probe.res.out) : probe.res.out[k][1] # "ls"
                ELSE is_dir(chain[Len(S)]) =>
                  \A dir \in {chain[Len(S)]}, names \in {RefListedNames(probe.res.out, long)} :
                    \A kids \in {{c \in DOMAIN dir.children : all \/ c[1] # "."}},
                       skip \in {IF all THEN 2 ELSE 0} :
                      /\ probe.res.ok
                      /\ \A k \in 1..Len(probe.res.out) : probe.res.out[k][1] = "ls"
                      /\ Len(names) = skip + Cardinality(kids)
                      /\ all => names[1] = <<".">> /\ names[2] = <<".", ".">>
                      /\ {names[k] : k \in (skip + 1)..Len(names)} = kids
                      /\ \A k \in (skip + 1)..(Len(names) - 1) : RefBefore(names[k], names[k + 1])
                      /\ long =>
                           \A modes \in {RefListedModes(probe.res.out)} :
                             /\ all => /\ modes[1] = fmt_mode(dir)
                                       /\ modes[2] = fmt_mode(IF S = <<>> THEN dir ELSE chain[Len(S) - 1])
                             /\ \A k \in (skip + 1)..Len(names) :
                                  modes[k] = fmt_mode(dir.children[names[k]])

\* C23 witness: "ls -a d" at the root lists ".", "..", the hidden .h, then B
\* before a and b
C23_Witness ==
  /\ Probed
  /\ probe.line = <<"l", "s", " ", "-", "a", " ", "d">> /\ probe.cwd = <<>>
  /\ probe.res.ok
  /\ probe.res.out = << <<"ls", <<".", " ", " ", ".", ".", " ", " ", ".", "h", " ", " ", "B", " ", " ", "a", " ", " ", "b">>>> >>


\* the physical lines of a text: what lies between line feeds, and after the
\* last one when something does
RefLines(text) ==
  LET pieces == Split(text, "\n") IN
  IF pieces[Len(pieces)] = <<>> THEN ButLast(pieces) ELSE pieces

\* C24: tac with one argument that designates a file whose content is
\* UTF-8 succeeds and prints the physical lines of the content from the last
\* to the first, one output line each, so that "a\nb" and "a\nb\n" both
\* give "b" then "a" and the empty content gives nothing; on a directory
\* and on a path that designates nothing tac fails.
C24_TacReversesLines ==
  Probed =>
    \A pcl \in {parse_command_line(probe.line)} :
      (~pcl.perr /\ pcl.cmd = C_tac /\ Len(pcl.args) = 1) =>
        \A node \in {RefTarget(root, probe.cwd, pcl.args[1])} :
          IF IsNone(node) \/ is_dir(node) THEN ~probe.res.ok
          ELSE (\A k \in 1..Len(node.content) : node.content[k] < 128) =>
            \A lines \in {RefLines([k \in 1..Len(node.content) |-> Chr(node.content[k])])} :
              /\ probe.res.ok
              /\ Len(probe.res.out) = Len(lines)
              /\ \A k \in 1..Len(lines) :
                   probe.res.out[k] = <<"tac", lines[Len(lines) + 1 - k]>>
              /\ node.content \in {<<97, 10, 98>>, <<97, 10, 98, 10>>} =>
                   probe.res.out = << <<"tac", <<"b">>>>, <<"tac", <<"a">>>> >>
              /\ node.content = <<>> => probe.res.out = <<>>

\* C24 witness: "tac f" on the content "a\nb\n" printed "b" then "a"
C24_Witness ==
  /\ Probed
  /\ probe.line = <<"t", "a", "c", " ", "f">> /\ probe.cwd = <<>>
  /\ NodeAt(root, << <<"f">> >>).content = <<97, 10, 98, 10>>
  /\ probe.res.ok
  /\ probe.res.out = << <<"tac", <<"b">>>>, <<"tac", <<"a">>>> >>


----------------------------------------------------------------------------
(* Claims about commands typed while the script runs, checked under SpecScript *)

\* C25: a command typed by the user that fails leaves the script run as it
\* was: the position in the script, the step registered with the event
\* loop, what the runner has executed and reported; it prints no
\* stopped-on-error report.  The run becomes stopped on an error only in a
\* step of the runner whose command failed.
C25_InteractiveFailureIsLocal ==
  [][ /\ (submits' = submits + 1 /\ last'.ran /\ ~last'.ok) =>
           /\ script_index' = script_index
           /\ script_lines' = script_lines
           /\ ("step" \in pending') = ("step" \in pending)
           /\ hist' = hist
           /\ ~Printed(out', "[script] stopped on error at line")
      /\ (hist'.outcome = "failed" /\ hist.outcome # "failed") =>
           last'.who = "script" /\ last'.ran /\ ~last'.ok ]_vars

\* C25 witness: the user's command has failed between two steps of a script
\* that has executed a line and has lines left: the run goes on
C25_Witness ==
  /\ last.who = "submit" /\ last.ran /\ ~last.ok
  /\ hist.outcome = "running"
  /\ hist.executed # <<>>
  /\ script_index < Len(script_lines)
  /\ "step" \in pending


----------------------------------------------------------------------------
(* Claims about the modes of the tree, checked under SpecFiles *)

\* C26: in every state the root is a directory and the mode of every node
\* of the tree is a number from 0 to 0o777.
C26_ModesInRange ==
  /\ is_dir(root)
  /\ \A Q \in RefPaths(root) : NodeAt(root, Q).mode \in 0..511

\* C26 witness: after "chmod 7777 /g" the file has the nine permission
\* bits and nothing above them
C26_Witness ==
  /\ RanChmod(FALSE, <<"7", "7", "7", "7">>, <<"/", "g">>) /\ last.ok
  /\ NodeAt(root, << <<"g">> >>).mode = 511


\* some clause of the symbolic mode lacks its operator or has no permission
\* letter or a letter that is not a permission
RefSomeClauseBad(mode_spec) ==
  /\ ~RefOctalText(mode_spec)
  /\ \E k \in 1..Len(RefClauses(mode_spec)) : ~RefClauseOk(RefClauses(mode_spec)[k])

\* C27: a chmod whose mode has a malformed clause fails and leaves every
\* node of the tree, the subtree under -R included, with the mode it had,
\* also when the clauses before the malformed one are well-formed.
C27_MalformedModeChangesNothing ==
  [][ submits' = submits + 1 =>
        \A pcl \in {parse_command_line(last'.line)} :
          (last'.ran /\ ChmodCall(pcl) /\ RefSomeClauseBad(ChmodModeSpec(pcl))) =>
            /\ ~last'.ok
            /\ RefPaths(root') = RefPaths(root)
            /\ \A Q \in RefPaths(root) : NodeAt(root', Q).mode = NodeAt(root, Q).mode ]_vars

\* C27 witness: "chmod -R u-r,g+s /d", whose first clause is well-formed,
\* has run right after the load and failed, and /d and the nodes below it
\* have the modes they were loaded with
C27_Witness ==
  /\ submits = 1
  /\ RanChmod(TRUE, <<"u", "-", "r", ",", "g", "+", "s">>, <<"/", "d">>) /\ ~last.ok
  /\ RefClauseOk(RefClauses(<<"u", "-", "r", ",", "g", "+", "s">>)[1])
  /\ NodeAt(root, << <<"d">> >>).mode = DirMode
  /\ NodeAt(root, << <<"d">>, <<"f">> >>).mode = FileMode


----------------------------------------------------------------------------
(* Claims about the states of the whole emulator, checked under Spec *)

\* C28: in every state the working directory has no empty, "." or ".."
\* segment and names a directory of the tree: following its segments from
\* the root stays in directories, and resolving its "/"-joined text from the
\* empty working directory gives the same segments and that directory, which
\* is the path pwd prints.
C28_CwdIsExistingDirectory ==
  /\ \A k \in 1..Len(cwd_parts) : cwd_parts[k] \notin {<<>>, <<".">>, <<".", ".">>}
  /\ is_dir(RefChain(root, cwd_parts)[Len(cwd_parts)])
  /\ resolve(root, <<>>, AbsolutePath(cwd_parts)) =
       [parts |-> cwd_parts, node |-> RefChain(root, cwd_parts)[Len(cwd_parts)]]

\* C28 witness: the working directory is /d/e, reached by a cd, and a cd to
\* the file /g has just failed
C28_Witness ==
  /\ cwd_parts = << <<"d">>, <<"e">> >>
  /\ RanCdWithOneArg /\ ~last.ok
  /\ LastCommand.args[1] = <<"/", "g">>
  /\ is_file(RefChain(root, << <<"g">> >>)[1])


----------------------------------------------------------------------------
(* Claims about the end of the session, checked under SpecScript *)

\* C29: once an exit command has been executed, which leaves the destroy
\* callback pending until the emulator is destroyed, no step passes a
\* command to the dispatcher: neither the script's next step nor a submit.
C29_NothingRunsAfterExit ==
  [][ ("destroy" \in pending) => ~last'.ran ]_vars


----------------------------------------------------------------------------
(* Claims about the loaded tree and resolve, checked under SpecLoad *)

\* the bytes a file row asks for
RefRowContent(row) ==
  IF Lower(Strip(row.encoding)) \in {<<>>, E_utf8, E_text}
    THEN EncodeUtf8(row.content)
  ELSE B64Decode(row.content).bytes

\* row k is a file row and no later row names the same segments
RefLastFileRow(k) ==
  /\ Lower(Strip(GivenRows[k].type)) = T_file
  /\ \A j \in (k + 1)..Len(GivenRows) : RowSegments(GivenRows[j]) # RowSegments(GivenRows[k])

\* C30: after a load that succeeded, resolving a row's path as an absolute
\* path gives a node of the row's kind, with the row's content for a file
\* row that no later row overwrote, rows with ".." segments included; and
\* every node of the tree is what resolve gives for its own "/"-joined path.
C30_BuiltNodesAddressable ==
  (JustLoaded /\ hist.load = "ok") =>
    /\ \A k \in 1..Len(GivenRows) :
         \A r \in {resolve(root, <<>>, <<"/">> \o Strip(GivenRows[k].path))} :
           /\ r.node.kind = (IF Lower(Strip(GivenRows[k].type)) = T_dir THEN "dir" ELSE "file")
           /\ RefLastFileRow(k) => r.node.content = RefRowContent(GivenRows[k])
    /\ \A Q \in RefPaths(root) :
         resolve(root, <<>>, AbsolutePath(Q)) = [parts |-> Q, node |-> NodeAt(root, Q)]


----------------------------------------------------------------------------
(* Inputs of the model SpecParent: resolve_parent, resolve and touch on the *)
(* trees, working directories and paths of SpecResolve *)

\* vfs.resolve_parent(C, P), vfs.resolve(C, P) and cmd_touch([P]) with the
\* working directory C on the tree as loaded, for some C and P
ParentProbe ==
  /\ pc = "mainloop"
  /\ probe = Nil
  /\ \E C \in CwdSet, P \in PathSet :
       probe' = [cwd |-> C, path |-> P,
                 par |-> resolve_parent(root, C, P),
                 res |-> resolve(root, C, P),
                 touched |-> cmd_touch(<<P>>, root, C, clock)]
  /\ UNCHANGED <<pc, vfs_path, startup_script, root, raw_bytes, name, cwd_parts, script_lines,
                 script_index, pending, clock, submits, out, last, hist>>

NextParent ==
  \/ LoadVfsIfAny
  \/ ParentProbe

SpecParent == InitResolve /\ [][NextParent]_vars

----------------------------------------------------------------------------
(* Claims about resolve_parent, checked under SpecParent *)

\* C31: when the last piece b of the path that is neither empty nor "." is
\* not "..", resolve_parent gives the segments S, a node p and b such that S
\* followed by b is the segments resolve gives for the path, p is what
\* resolve gives for S (none when S designates nothing), and resolve gives a
\* node for the path exactly when p is a directory with a child b.  And a
\* touch, whatever the path, keeps every node of the tree with its kind,
\* content and mode, and adds no node named "." or "..".
C31_ParentAgreesWithResolve ==
  Probed =>
    /\ \A segs \in {RefPieces(probe.path)} :
         (segs # <<>> /\ segs[Len(segs)] # <<".", ".">>) =>
           \A b \in {segs[Len(segs)]}, S \in {probe.par.parts}, p \in {probe.par.node} :
             /\ probe.par.has_base /\ probe.par.basename = b
             /\ Append(S, b) = probe.res.parts
             /\ p = resolve(root, <<>>, AbsolutePath(S)).node
             /\ (~IsNone(probe.res.node)) <=> (p.kind = "dir" /\ b \in DOMAIN p.children)
    /\ RefPaths(root) \subseteq RefPaths(probe.touched.root)
    /\ \A Q \in RefPaths(root) :
         \A old \in {NodeAt(root, Q)}, new \in {NodeAt(probe.touched.root, Q)} :
           new.kind = old.kind /\ new.content = old.content /\ new.mode = old.mode
    /\ \A Q \in RefPaths(probe.touched.root) \ RefPaths(root) :
         Q[Len(Q)] \notin {<<".">>, <<".", ".">>}

\* C31 witness: in the tree holding the directory a/b and the file b, from
\* the working directory a the path "b/a" has the parent segments a, b and
\* the basename a; resolve finds no node, the parent is a directory without
\* that child, and touch adds the file a/b/a and nothing else
C31_Witness ==
  /\ Probed
  /\ probe.cwd = << <<"a">> >> /\ probe.path = <<"b", "/", "a">>
  /\ probe.par.parts = << <<"a">>, <<"b">> >> /\ probe.par.basename = <<"a">>
  /\ is_dir(probe.par.node) /\ DOMAIN probe.par.node.children = {}
  /\ IsNone(probe.res.node)
  /\ probe.touched.ok
  /\ RefPaths(probe.touched.root) = RefPaths(root) \cup {<< <<"a">>, <<"b">>, <<"a">> >>}
  /\ is_file(NodeAt(probe.touched.root, << <<"a">>, <<"b">>, <<"a">> >>))

====
